---- MODULE Spec2Model ----
(***************************************************************************)
(* Model of the onshape-mcp feature builders and of the tool handlers of   *)
(* server.py that submit the built features to the Part Studio.            *)
(*                                                                         *)
(* A tool invocation is a coroutine of call_tool that is suspended at each *)
(* `await partstudio_manager.add_feature(...)`.  Its actions are the steps *)
(* of the handler between two suspensions, and the ways the await ends: a  *)
(* response, an exception of the Gateway, or the cancellation of the task. *)
(* The builders are also used directly: a caller holds one builder object, *)
(* calls its setters and asks it to build.                                 *)
(*                                                                         *)
(* Lengths (inches) are modelled by integers: only their order and their   *)
(* identity matter to the code modelled here.  Strings that the code       *)
(* searches and rewrites (queryString, featureId) are sequences of string  *)
(* tokens, and str.replace acts on them token by token.                    *)
(***************************************************************************)
EXTENDS Integers, Sequences, FiniteSets, TLC

(***************************************************************************)
(* Bounds of the model.                                                    *)
(***************************************************************************)
\* Longest radii / depths list of a request.
MaxSteps == 3

\* Most edges a caller gives to a FilletBuilder.
MaxEdges == 2

\* Longest entities list of a create_sketch request.
MaxEntities == 2

\* Values a radius and a cumulative depth may take.
Radii == 1..3
Depths == 1..2

\* Tool invocations (coroutines of call_tool) that may exist on the server.
Calls == {1, 2}

\* Status codes an HTTPStatusError of the Gateway may carry.
StatusCodes == {400}

VARIABLES
    name,        \* name[c]: the tool invocation c calls
    pc,          \* pc[c]: position of invocation c in call_tool
    arguments,   \* arguments[c]: the arguments object of the request
    features,    \* features[c]: the list returned by build_all_features
    i,           \* i[c]: index (from 1) of the feature the loop is at
    feature_ids, \* feature_ids[c]: identifiers accumulated by the loop
    sketch_ids,  \* sketch_ids[c]: identifiers of the sketches created so far
    result,      \* result[c]: what call_tool returned to its caller
    gateway,     \* every request handed to partstudio_manager, with its response
    schema,      \* where the remote service puts the identifier in its responses
    nextId,      \* the next identifier the remote service assigns
    builder,     \* a builder object a caller of the builders package holds
    built        \* what the last build() of that builder returned or raised

\* The state of the server, and the state of a caller of the builders.
serverVars == <<name, pc, arguments, features, i, feature_ids, sketch_ids, result, gateway, schema, nextId>>
builderVars == <<builder, built>>

vars == <<serverVars, builderVars>>

(***************************************************************************)
(* Sequences up to a length.                                               *)
(***************************************************************************)
SeqUpTo(S, n) == UNION {[1..k -> S] : k \in 0..n}

\* The elements of a sequence.
Range(seq) == {seq[k] : k \in 1..Len(seq)}

(***************************************************************************)
(* builders/stepped_extrude.py                                             *)
(***************************************************************************)
\* f"{{SKETCH_{i}}}"
Placeholder(k) == "{SKETCH_" \o ToString(k) \o "}"

\* Each radius is paired with the depth at the mirrored index.
ZipDepthsReversed(radii, depths) ==
    LET n == IF Len(radii) < Len(depths) THEN Len(radii) ELSE Len(depths)
    IN  [k \in 1..n |-> <<radii[k], depths[n + 1 - k]>>]

\* list(zip(self.radii, self.depths)): stops at the shorter list.
Zip(radii, depths) ==
    LET n == IF Len(radii) < Len(depths) THEN Len(radii) ELSE Len(depths)
    IN  [k \in 1..n |-> <<radii[k], depths[k]>>]

\* The sort key of a step: lambda x: -x[0]
SortKeyAscending(step) == step[1]
SortKey(step) == 0 - step[1]

\* x goes before the elements whose key equals its own.
InsertStepBeforeEqual(sorted, x) ==
    LET before == {k \in 0..Len(sorted) :
                      \A j \in 1..k : SortKey(sorted[j]) < SortKey(x)}
        p == CHOOSE k \in before : \A m \in before : m <= k
    IN  SubSeq(sorted, 1, p) \o <<x>> \o SubSeq(sorted, p + 1, Len(sorted))

\* One insertion of a stable sort: x goes after every element whose key is
\* not greater than its own.
InsertStep(sorted, x) ==
    LET before == {k \in 0..Len(sorted) :
                      \A j \in 1..k : SortKey(sorted[j]) <= SortKey(x)}
        p == CHOOSE k \in before : \A m \in before : m <= k
    IN  SubSeq(sorted, 1, p) \o <<x>> \o SubSeq(sorted, p + 1, Len(sorted))

RECURSIVE SortFrom(_, _, _)
SortFrom(steps, k, acc) ==
    IF k > Len(steps) THEN acc
    ELSE SortFrom(steps, k + 1, InsertStep(acc, steps[k]))

\* steps.sort(key=lambda x: -x[0]): list.sort is stable.
SortSteps(steps) == SortFrom(steps, 1, <<>>)

\* builders/sketch.py is not part of the sources: SketchBuilder is modelled
\* from the specification (sections 3 and 4.2).  A sketch feature carries its
\* name, its plane, the plane identifier the builder was given, and the
\* entity records in the order the entities were added.
SketchBuilderBuild(sketch_name, plane, plane_id, entities) ==
    [ feature |->
        [ featureType |-> "sketch",
          name        |-> sketch_name,
          plane       |-> plane,
          planeId     |-> plane_id,
          entities    |-> entities ] ]

\* The record of a circle added by add_circle(center, radius, is_construction).
CircleEntity(radius, is_construction) ==
    [ type |-> "circle", radius |-> radius, isConstruction |-> is_construction ]

\* SketchBuilder(name, plane).add_circle(center, radius, False).build():
\* a sketch feature with one circle.  The builder is given the plane's name
\* and no plane identifier.
NoPlaneId == "None"
SketchFeature(sketch_name, plane, radius) ==
    SketchBuilderBuild(sketch_name, plane, NoPlaneId,
                       << CircleEntity(radius, FALSE) >>)

\* The index written into the placeholder of step k (k from 0).
PlaceholderIndex(k) == k

\* The extrude REMOVE feature of step k, whose sketch-region query names the
\* sketch by a placeholder.
ExtrudeFeature(prefix, k, depth) ==
    LET sketch_id_placeholder == Placeholder(PlaceholderIndex(k))
    IN  [ btType  |-> "BTFeatureDefinitionCall-1406",
          feature |->
            [ btType      |-> "BTMFeature-134",
              featureType |-> "extrude",
              name        |-> prefix \o " " \o ToString(k + 1),
              suppressed  |-> FALSE,
              parameters  |-> <<
                [ btType      |-> "BTMParameterQueryList-148",
                  queries     |-> <<
                    [ btType           |-> "BTMIndividualSketchRegionQuery-140",
                      filterInnerLoops |-> TRUE,
                      queryString      |-> << "query = qSketchRegion(id + \"",
                                              sketch_id_placeholder,
                                              "\", true);" >>,
                      featureId        |-> << sketch_id_placeholder >>,
                      deterministicIds |-> <<>> ] >>,
                  parameterId |-> "entities" ],
                [ btType      |-> "BTMParameterEnum-145",
                  enumName    |-> "NewBodyOperationType",
                  value       |-> "REMOVE",
                  parameterId |-> "operationType" ],
                [ btType      |-> "BTMParameterQuantity-147",
                  isInteger   |-> FALSE,
                  value       |-> depth,
                  expression  |-> ToString(depth) \o " in",
                  parameterId |-> "depth" ],
                [ btType      |-> "BTMParameterBoolean-144",
                  value       |-> FALSE,
                  parameterId |-> "oppositeDirection" ] >> ] ]

RECURSIVE FeaturesFrom(_, _, _, _)
FeaturesFrom(prefix, plane, steps, k) ==
    IF k >= Len(steps) THEN <<>>
    ELSE << SketchFeature(prefix \o " Sketch " \o ToString(k + 1), plane,
                          steps[k + 1][1]),
            ExtrudeFeature(prefix, k, steps[k + 1][2]) >>
         \o FeaturesFrom(prefix, plane, steps, k + 1)

\* The two checks build_all_features starts with: the message of the
\* ValueError it raises, or "" when it raises none.
ValidationErrorNoMinimum(radii, depths) ==
    IF Len(radii) # Len(depths) THEN "Number of radii must match number of depths"
    ELSE ""

ValidationError(radii, depths) ==
    IF Len(radii) # Len(depths) THEN "Number of radii must match number of depths"
    ELSE IF Len(radii) < 2 THEN "At least 2 steps required for counterbore hole"
    ELSE ""

\* SteppedExtrudeBuilder.build_all_features, past its two checks.
build_all_features(prefix, plane, radii, depths) ==
    FeaturesFrom(prefix, plane, SortSteps(Zip(radii, depths)), 0)


(***************************************************************************)
(* builders/fillet.py                                                      *)
(*                                                                         *)
(* An Optional[str] is a sequence: <<>> is None, <<s>> is the string s.    *)
(***************************************************************************)
FilletType == {"EDGE", "FACE", "FULL_ROUND"}

\* FilletBuilder.__init__
FilletBuilder(fillet_name, radius, fillet_type) ==
    [ name            |-> fillet_name,
      radius          |-> radius,
      fillet_type     |-> fillet_type,
      radius_variable |-> <<>>,
      edge_ids        |-> <<>> ]

\* FilletBuilder.set_radius
set_radius(fillet, radius, variable_name) ==
    [fillet EXCEPT !.radius = radius, !.radius_variable = variable_name]

\* FilletBuilder.add_edge
add_edge(fillet, edge_id) ==
    [fillet EXCEPT !.edge_ids = Append(@, edge_id)]

\* FilletBuilder.set_edges
set_edges(fillet, edge_ids) ==
    [fillet EXCEPT !.edge_ids = edge_ids]

\* Any string is true, the empty one too.
TruthyNotNone(optional) == optional # <<>>

\* Truth value of an Optional[str]: None and "" are false.
Truthy(optional) == optional # <<>> /\ optional[1] # ""

\* build() never raises.
FilletBuildErrorNever(fillet) == ""

\* FilletBuilder.build, line 81: the message of the ValueError, or "".
FilletBuildError(fillet) ==
    IF fillet.edge_ids = <<>>
    THEN "At least one edge ID must be set before building fillet"
    ELSE ""

\* FilletBuilder.build, lines 84-128.
FilletFeature(fillet) ==
    LET radius_expression ==
            IF Truthy(fillet.radius_variable)
            THEN "#" \o fillet.radius_variable[1]
            ELSE ToString(fillet.radius) \o " in"
    IN  [ btType  |-> "BTFeatureDefinitionCall-1406",
          feature |->
            [ btType      |-> "BTMFeature-134",
              featureType |-> "fillet",
              name        |-> fillet.name,
              suppressed  |-> FALSE,
              parameters  |-> <<
                [ btType      |-> "BTMParameterQueryList-148",
                  queries     |-> <<
                    [ btType           |-> "BTMIndividualQuery-138",
                      deterministicIds |-> fillet.edge_ids ] >>,
                  parameterId |-> "entities" ],
                [ btType      |-> "BTMParameterQuantity-147",
                  isInteger   |-> FALSE,
                  value       |-> fillet.radius,
                  expression  |-> radius_expression,
                  parameterId |-> "radius" ],
                [ btType      |-> "BTMParameterEnum-145",
                  enumName    |-> "FilletType",
                  value       |-> fillet.fillet_type,
                  parameterId |-> "filletType" ] >> ] ]

\* No builder is held, and nothing was built.
NoBuilder == [class |-> "none"]
NotBuilt == [status |-> "none"]

\* What build() returned, or the ValueError it raised, for the builder object
\* `of` it was called on.  The dict build() returns holds, as deterministicIds,
\* the list object self.edge_ids names (line 100), not a copy: `feature` is the
\* dict as it was returned, `now` the same dict as it reads now, and `aliased`
\* says that its deterministicIds is still the list self.edge_ids names.
Returned(feature, of) ==
    [status |-> "feature", feature |-> feature, of |-> of, now |-> feature, aliased |-> TRUE]
Raised(message, of) == [status |-> "ValueError", message |-> message, of |-> of]

\* The dict with the list of its deterministicIds holding edge_ids.
WithEdgeIds(feature, edge_ids) ==
    [feature EXCEPT !.feature.parameters[1].queries[1].deterministicIds = edge_ids]

\* The returned dict after self.edge_ids.append: the list it holds has grown
\* when it is the list that was appended to.
AfterAppend(returned, edge_ids) ==
    IF returned.status = "feature" /\ returned.aliased
    THEN [returned EXCEPT !.now = WithEdgeIds(@, edge_ids)]
    ELSE returned

\* The returned dict after self.edge_ids is bound to another list: it keeps
\* the list it had.
AfterRebind(returned) ==
    IF returned.status = "feature"
    THEN [returned EXCEPT !.aliased = FALSE]
    ELSE returned

\* The arguments the caller of a FilletBuilder passes.
FilletRadii == {1, 2}
VariableNames == {<<>>, <<"">>, <<"fillet_r">>}
EdgeIds == {"JHD", "JHK"}

\* fillet.set_radius(radius, variable_name)
FilletSetRadius ==
    /\ builder.class = "FilletBuilder"
    /\ \E radius \in FilletRadii, variable_name \in VariableNames :
          builder' = [builder EXCEPT !.object = set_radius(@, radius, variable_name)]
    /\ UNCHANGED <<built, serverVars>>

\* fillet.add_edge(edge_id)
FilletAddEdge ==
    /\ builder.class = "FilletBuilder"
    /\ Len(builder.object.edge_ids) < MaxEdges
    /\ \E edge_id \in EdgeIds :
          builder' = [builder EXCEPT !.object = add_edge(@, edge_id)]
    /\ built' = AfterAppend(built, builder'.object.edge_ids)
    /\ UNCHANGED serverVars

\* fillet.set_edges(edge_ids)
FilletSetEdges ==
    /\ builder.class = "FilletBuilder"
    /\ \E edge_ids \in SeqUpTo(EdgeIds, MaxEdges) :
          builder' = [builder EXCEPT !.object = set_edges(@, edge_ids),
                                   !.edge_ids_of_caller = TRUE]
    /\ built' = AfterRebind(built)
    /\ UNCHANGED serverVars

\* The caller appends to the list it passed to set_edges, which is the list
\* self.edge_ids names (line 72 keeps the caller's list, not a copy).
FilletCallerAppends ==
    /\ builder.class = "FilletBuilder"
    /\ builder.edge_ids_of_caller
    /\ Len(builder.object.edge_ids) < MaxEdges
    /\ \E edge_id \in EdgeIds :
          builder' = [builder EXCEPT !.object.edge_ids = Append(@, edge_id)]
    /\ built' = AfterAppend(built, builder'.object.edge_ids)
    /\ UNCHANGED serverVars

\* fillet.build()
FilletBuild ==
    /\ builder.class = "FilletBuilder"
    /\ built' = IF FilletBuildError(builder.object) # ""
                THEN Raised(FilletBuildError(builder.object), builder.object)
                ELSE Returned(FilletFeature(builder.object), builder.object)
    /\ UNCHANGED <<builder, serverVars>>

(***************************************************************************)
(* builders/gear.py                                                        *)
(***************************************************************************)
\* GearBuilder.__init__, with the defaults of name, plane, plane_id and
\* bore_diameter.
GearBuilder(num_teeth, module, pressure_angle, thickness) ==
    [ name           |-> "Gear",
      plane          |-> "Front",
      plane_id       |-> "JCC",
      num_teeth      |-> num_teeth,
      module         |-> module,
      pressure_angle |-> pressure_angle,
      thickness      |-> thickness,
      bore_diameter  |-> 0,
      center_x       |-> 0,
      center_y       |-> 0 ]

\* GearBuilder.set_center
set_center(gear, x, y) == [gear EXCEPT !.center_x = x, !.center_y = y]

\* GearBuilder.set_teeth
set_teeth(gear, num_teeth) == [gear EXCEPT !.num_teeth = num_teeth]

\* GearBuilder.build: an extrude feature with the gear's name and an empty
\* list of parameters.
GearFeature(gear) ==
    [ btType  |-> "BTFeatureDefinitionCall-1406",
      feature |->
        [ btType      |-> "BTMFeature-134",
          featureType |-> "extrude",
          name        |-> gear.name,
          suppressed  |-> FALSE,
          namespace   |-> "",
          parameters  |-> <<>> ] ]

\* The FeatureScript text of build_as_custom_feature: the f-string
\* interpolates nothing of the builder.
gear_script == "FeatureScript 2856; export const gear = defineFeature(...);"

\* GearBuilder.build_as_custom_feature
GearCustomFeature(gear) ==
    [ btType  |-> "BTFeatureDefinitionCall-1406",
      feature |->
        [ btType        |-> "BTMFeature-134",
          featureType   |-> "customFeature",
          name          |-> gear.name,
          suppressed    |-> FALSE,
          namespace     |-> "",
          featureScript |-> gear_script,
          parameters    |-> <<
            [ btType      |-> "BTMParameterQuantity-147",
              isInteger   |-> TRUE,
              value       |-> gear.num_teeth,
              parameterId |-> "numTeeth" ],
            [ btType      |-> "BTMParameterQuantity-147",
              isInteger   |-> FALSE,
              value       |-> gear.module,
              parameterId |-> "module" ],
            [ btType      |-> "BTMParameterQuantity-147",
              isInteger   |-> FALSE,
              value       |-> gear.pressure_angle,
              parameterId |-> "pressureAngle" ],
            [ btType      |-> "BTMParameterQuantity-147",
              isInteger   |-> FALSE,
              value       |-> gear.thickness,
              parameterId |-> "thickness" ] >> ] ]

\* What a method of a GearBuilder returned, for the builder object `of` it
\* was called on.
ReturnedBy(method, feature, of) ==
    [status |-> "feature", method |-> method, feature |-> feature, of |-> of]

\* The arguments the caller of a GearBuilder passes.
Teeth == {20, 24}
Modules == {1, 2}
PressureAngles == {20, 25}
Thicknesses == {1, 2}
Centers == {<<0, 0>>, <<1, 1>>}

\* gear.set_center(x, y)
GearSetCenter ==
    /\ builder.class = "GearBuilder"
    /\ \E center \in Centers :
          builder' = [builder EXCEPT !.object = set_center(@, center[1], center[2])]
    /\ UNCHANGED <<built, serverVars>>

\* gear.set_teeth(num_teeth)
GearSetTeeth ==
    /\ builder.class = "GearBuilder"
    /\ \E num_teeth \in Teeth :
          builder' = [builder EXCEPT !.object = set_teeth(@, num_teeth)]
    /\ UNCHANGED <<built, serverVars>>

\* gear.build()
GearBuild ==
    /\ builder.class = "GearBuilder"
    /\ built' = ReturnedBy("build", GearFeature(builder.object), builder.object)
    /\ UNCHANGED <<builder, serverVars>>

\* gear.build_as_custom_feature()
GearBuildAsCustomFeature ==
    /\ builder.class = "GearBuilder"
    /\ built' = ReturnedBy("build_as_custom_feature",
                           GearCustomFeature(builder.object), builder.object)
    /\ UNCHANGED <<builder, serverVars>>

(***************************************************************************)
(* builders/stepped_extrude.py, the builder object                         *)
(*                                                                         *)
(* self.radii and self.depths are the lists the caller passed (a non-empty *)
(* argument list is kept, not copied): the object's radii and depths are   *)
(* also what the caller sees in its own lists.                             *)
(***************************************************************************)
\* SteppedExtrudeBuilder.__init__, with the default plane.
SteppedExtrudeBuilder(name_prefix, radii, depths) ==
    [ name_prefix |-> name_prefix,
      radii       |-> radii,
      depths      |-> depths,
      plane       |-> "Top" ]

\* stepped.add_step(radius, depth)
add_step(stepped, radius, depth) ==
    [stepped EXCEPT !.radii = Append(@, radius), !.depths = Append(@, depth)]

\* The radii and depths of the sorted steps, as two lists.
SortedLists(stepped) ==
    LET steps == SortSteps(Zip(stepped.radii, stepped.depths))
    IN  [stepped EXCEPT !.radii = [k \in 1..Len(steps) |-> steps[k][1]],
                        !.depths = [k \in 1..Len(steps) |-> steps[k][2]]]

\* The sort is done on the builder's own lists.
AfterBuildSortedInPlace(stepped) ==
    IF ValidationError(stepped.radii, stepped.depths) # "" THEN stepped
    ELSE SortedLists(stepped)

\* Lines 67-68: the steps are zipped into a new list and that list is
\* sorted; self.radii and self.depths are only read.
AfterBuild(stepped) == stepped

\* What build_all_features returned for the builder object `of`.
ReturnedList(feature_list, of) == [status |-> "features", features |-> feature_list, of |-> of]

\* The steps the caller of a SteppedExtrudeBuilder adds.
StepsAdded == {<<1, 2>>, <<2, 1>>, <<3, 1>>}

\* stepped.add_step(radius, depth)
SteppedAddStep ==
    /\ builder.class = "SteppedExtrudeBuilder"
    /\ Len(builder.object.radii) < MaxSteps
    /\ \E step \in StepsAdded :
          builder' = [builder EXCEPT !.object = add_step(@, step[1], step[2])]
    /\ UNCHANGED <<built, serverVars>>

\* stepped.build_all_features()
SteppedBuildAllFeatures ==
    /\ builder.class = "SteppedExtrudeBuilder"
    /\ LET stepped == builder.object
           error == ValidationError(stepped.radii, stepped.depths)
       IN  built' = IF error # ""
                    THEN Raised(error, stepped)
                    ELSE ReturnedList(build_all_features(stepped.name_prefix, stepped.plane,
                                                         stepped.radii, stepped.depths),
                                      stepped)
    /\ builder' = [builder EXCEPT !.object = AfterBuild(@)]
    /\ UNCHANGED serverVars

(***************************************************************************)
(* The Gateway: partstudio_manager.add_feature and the remote service.     *)
(***************************************************************************)
\* The identifier the remote service assigns to its n-th feature.
ServiceId(n) == "F" \o ToString(n)

\* The JSON body of a successful POST for the feature made `id`: the service
\* gives the identifier as a top-level "featureId", or inside "feature" (where
\* create_sketch reads it).
Schemas == {"featureId", "feature.featureId"}
ResponseBody(id) ==
    IF schema = "featureId"
    THEN [featureId |-> id]
    ELSE [feature |-> [featureId |-> id]]

Pending == [status |-> "pending"]
Ok(body) == [status |-> "ok", body |-> body]
HTTPStatusError(code) == [status |-> "HTTPStatusError", status_code |-> code]
TransportError == [status |-> "Exception", message |-> "transport failure"]
Cancelled == [status |-> "cancelled"]

\* The requests of invocation c, in the order they were handed to the Gateway.
RequestsOf(c) == SelectSeq(gateway, LAMBDA q : q.caller = c)

\* The place in `gateway` of the request invocation c is suspended on.
PendingOf(c) ==
    CHOOSE k \in 1..Len(gateway) :
        gateway[k].caller = c /\ gateway[k].response = Pending

(***************************************************************************)
(* server.py, call_tool, name == "create_stepped_extrude"                  *)
(***************************************************************************)
\* feature_data.get("feature", {}).get("featureType") == "sketch"
is_sketch(feature_data) ==
    /\ "feature" \in DOMAIN feature_data
    /\ "featureType" \in DOMAIN feature_data.feature
    /\ feature_data.feature.featureType = "sketch"

\* str.replace(placeholder, sketch_id) on a string of tokens.
Replace(str, placeholder, sketch_id) ==
    [k \in 1..Len(str) |-> IF str[k] = placeholder THEN sketch_id ELSE str[k]]

\* The rewrite also fills the query's deterministicIds with the sketch.
ReplaceInQueryAndDeterministicIds(query, placeholder, sketch_id) ==
    [key \in DOMAIN query |->
        IF key \in {"queryString", "featureId"}
        THEN Replace(query[key], placeholder, sketch_id)
        ELSE IF key = "deterministicIds" THEN << sketch_id >>
        ELSE query[key]]

\* Lines 1003-1007: the rewrite of one query.
ReplaceInQuery(query, placeholder, sketch_id) ==
    [key \in DOMAIN query |->
        IF key \in {"queryString", "featureId"}
        THEN Replace(query[key], placeholder, sketch_id)
        ELSE query[key]]

\* Lines 1001-1003: the rewrite of one parameter; only "entities" is touched.
ReplaceInParam(param, placeholder, sketch_id) ==
    IF "parameterId" \in DOMAIN param /\ param.parameterId = "entities"
       /\ "queries" \in DOMAIN param
    THEN [param EXCEPT !.queries =
             [k \in 1..Len(@) |-> ReplaceInQuery(@[k], placeholder, sketch_id)]]
    ELSE param

\* Lines 1000-1007: the rewrite of feature_data, in place.
ReplacePlaceholder(feature_data, placeholder, sketch_id) ==
    [feature_data EXCEPT !.feature.parameters =
        [k \in 1..Len(@) |-> ReplaceInParam(@[k], placeholder, sketch_id)]]

\* Line 998: the placeholder the handler looks for.
PlaceholderOfNext(ids) == Placeholder(Len(ids))
PlaceholderOfLast(ids) == Placeholder(Len(ids) - 1)

\* Line 997: sketch_ids[-1]
FirstSketchId(ids) == ids[1]
LastSketchId(ids) == ids[Len(ids)]

\* result.get("featureId", "unknown")
ReadFeatureId(body) ==
    IF "featureId" \in DOMAIN body THEN body.featureId ELSE "unknown"

\* What call_tool returns: the content of its one TextContent.
NoResult == [kind |-> "none"]
Created(num_steps, ids) ==
    [kind |-> "Created counterbore hole", num_steps |-> num_steps, ids |-> ids]
ApiError(code) ==
    [kind |-> "Error creating counterbore hole: API returned", status_code |-> code]
ValueErrorText(message) ==
    [kind |-> "Error creating counterbore hole", message |-> message]
UnexpectedError(message) ==
    [kind |-> "Error creating stepped extrude", message |-> message]

NamePrefix == "Counterbore"
Plane == "Top"

\* Lines 974-985: the builder is made and build_all_features runs; its
\* ValueError is caught at line 1040.
Build(c) ==
    /\ name[c] = "create_stepped_extrude"
    /\ pc[c] = "start"
    /\ LET radii == arguments[c].radii
           depths == arguments[c].depths
           error == ValidationError(radii, depths)
       IN  IF error # ""
           THEN /\ result' = [result EXCEPT ![c] = ValueErrorText(error)]
                /\ pc' = [pc EXCEPT ![c] = "done"]
                /\ UNCHANGED features
           ELSE /\ features' = [features EXCEPT ![c] =
                                   build_all_features(NamePrefix, Plane, radii, depths)]
                /\ pc' = [pc EXCEPT ![c] = "loop"]
                /\ UNCHANGED result
    /\ UNCHANGED <<builder, built, name, arguments, i, feature_ids, sketch_ids, gateway, schema, nextId>>

\* The feature is handed over and the loop goes on without its result.
SubmitWithoutAwait(c) ==
    /\ name[c] = "create_stepped_extrude"
    /\ pc[c] = "loop"
    /\ i[c] <= Len(features[c])
    /\ gateway' = Append(gateway,
                         [ caller   |-> c,
                           op       |-> "add_feature",
                           index    |-> i[c],
                           feature  |-> features[c][i[c]],
                           response |-> Pending ])
    /\ i' = [i EXCEPT ![c] = @ + 1]
    /\ UNCHANGED <<builder, built, name, pc, arguments, features, feature_ids, sketch_ids, result, schema, nextId>>

\* Lines 991-1014: the loop takes its next feature, rewrites the placeholder
\* of an extrude in place, and hands the feature to add_feature.
Submit(c) ==
    /\ name[c] = "create_stepped_extrude"
    /\ pc[c] = "loop"
    /\ i[c] <= Len(features[c])
    /\ LET feature_data == features[c][i[c]]
           rewritten ==
               IF ~is_sketch(feature_data) /\ sketch_ids[c] # <<>>
               THEN ReplacePlaceholder(feature_data,
                                       PlaceholderOfLast(sketch_ids[c]),
                                       LastSketchId(sketch_ids[c]))
               ELSE feature_data
       IN  /\ features' = [features EXCEPT ![c][i[c]] = rewritten]
           /\ gateway' = Append(gateway,
                                [ caller   |-> c,
                                  op       |-> "add_feature",
                                  index    |-> i[c],
                                  feature  |-> rewritten,
                                  response |-> Pending ])
    /\ pc' = [pc EXCEPT ![c] = "await"]
    /\ UNCHANGED <<builder, built, name, arguments, i, feature_ids, sketch_ids, result, schema, nextId>>

\* The identifier is kept in lists that all the invocations share.
ReturnToSharedLists(c) ==
    /\ name[c] = "create_stepped_extrude"
    /\ pc[c] = "await"
    /\ LET body == ResponseBody(ServiceId(nextId))
           feature_id == ReadFeatureId(body)
       IN  /\ gateway' = [gateway EXCEPT ![PendingOf(c)].response = Ok(body)]
           /\ feature_ids' = [d \in Calls |-> Append(feature_ids[d], feature_id)]
           /\ sketch_ids' = [d \in Calls |->
                                IF is_sketch(features[c][i[c]])
                                THEN Append(sketch_ids[d], feature_id)
                                ELSE sketch_ids[d]]
    /\ nextId' = nextId + 1
    /\ i' = [i EXCEPT ![c] = @ + 1]
    /\ pc' = [pc EXCEPT ![c] = "loop"]
    /\ UNCHANGED <<builder, built, name, arguments, features, result, schema>>

\* Lines 1009-1021: add_feature returns; the identifier is read and kept.
Return(c) ==
    /\ name[c] = "create_stepped_extrude"
    /\ pc[c] = "await"
    /\ LET body == ResponseBody(ServiceId(nextId))
           feature_id == ReadFeatureId(body)
       IN  /\ gateway' = [gateway EXCEPT ![PendingOf(c)].response = Ok(body)]
           /\ feature_ids' = [feature_ids EXCEPT ![c] = Append(@, feature_id)]
           /\ sketch_ids' = [sketch_ids EXCEPT ![c] =
                                IF is_sketch(features[c][i[c]])
                                THEN Append(@, feature_id) ELSE @]
    /\ nextId' = nextId + 1
    /\ i' = [i EXCEPT ![c] = @ + 1]
    /\ pc' = [pc EXCEPT ![c] = "loop"]
    /\ UNCHANGED <<builder, built, name, arguments, features, result, schema>>

\* The error is swallowed inside the loop, which goes on to its next feature.
RejectedAndContinue(c) ==
    /\ name[c] = "create_stepped_extrude"
    /\ pc[c] = "await"
    /\ \E code \in StatusCodes :
          gateway' = [gateway EXCEPT ![PendingOf(c)].response = HTTPStatusError(code)]
    /\ i' = [i EXCEPT ![c] = @ + 1]
    /\ pc' = [pc EXCEPT ![c] = "loop"]
    /\ UNCHANGED <<builder, built, name, arguments, features, feature_ids, sketch_ids, result, schema, nextId>>

\* Lines 1030-1039: add_feature raises httpx.HTTPStatusError.
Rejected(c) ==
    /\ name[c] = "create_stepped_extrude"
    /\ pc[c] = "await"
    /\ \E code \in StatusCodes :
          /\ gateway' = [gateway EXCEPT ![PendingOf(c)].response = HTTPStatusError(code)]
          /\ result' = [result EXCEPT ![c] = ApiError(code)]
    /\ pc' = [pc EXCEPT ![c] = "done"]
    /\ UNCHANGED <<builder, built, name, arguments, features, i, feature_ids, sketch_ids, schema, nextId>>

\* The same feature is handed to add_feature again.
TransportFailureRetried(c) ==
    /\ name[c] = "create_stepped_extrude"
    /\ pc[c] = "await"
    /\ gateway' = [gateway EXCEPT ![PendingOf(c)].response = TransportError]
    /\ pc' = [pc EXCEPT ![c] = "loop"]
    /\ UNCHANGED <<builder, built, name, arguments, features, i, feature_ids, sketch_ids, result, schema, nextId>>

\* Lines 1047-1054: add_feature raises another Exception (no connection).
TransportFailure(c) ==
    /\ name[c] = "create_stepped_extrude"
    /\ pc[c] = "await"
    /\ gateway' = [gateway EXCEPT ![PendingOf(c)].response = TransportError]
    /\ result' = [result EXCEPT ![c] = UnexpectedError(TransportError.message)]
    /\ pc' = [pc EXCEPT ![c] = "done"]
    /\ UNCHANGED <<builder, built, name, arguments, features, i, feature_ids, sketch_ids, schema, nextId>>

\* The caller cancels the invocation (or its timeout does) while it is
\* suspended in add_feature: asyncio.CancelledError is a BaseException, none
\* of the except clauses of lines 1030-1047 catches it, and call_tool returns
\* nothing.
Cancel(c) ==
    /\ pc[c] \in {"await", "await_plane"}
    /\ gateway' = [gateway EXCEPT ![PendingOf(c)].response = Cancelled]
    /\ pc' = [pc EXCEPT ![c] = "cancelled"]
    /\ UNCHANGED <<builder, built, name, arguments, features, i, feature_ids, sketch_ids, result, schema, nextId>>

\* The result lists the sketches only.
FinishWithSketchIds(c) ==
    /\ name[c] = "create_stepped_extrude"
    /\ pc[c] = "loop"
    /\ i[c] > Len(features[c])
    /\ result' = [result EXCEPT ![c] =
                     Created(Len(arguments[c].radii), sketch_ids[c])]
    /\ pc' = [pc EXCEPT ![c] = "done"]
    /\ UNCHANGED <<builder, built, name, arguments, features, i, feature_ids, sketch_ids, gateway, schema, nextId>>

\* Lines 1023-1029: the loop is over.
Finish(c) ==
    /\ name[c] = "create_stepped_extrude"
    /\ pc[c] = "loop"
    /\ i[c] > Len(features[c])
    /\ result' = [result EXCEPT ![c] =
                     Created(Len(arguments[c].radii), feature_ids[c])]
    /\ pc' = [pc EXCEPT ![c] = "done"]
    /\ UNCHANGED <<builder, built, name, arguments, features, i, feature_ids, sketch_ids, gateway, schema, nextId>>

(***************************************************************************)
(* server.py, call_tool, name == "create_fillet"                           *)
(***************************************************************************)
\* arguments.get(key, default)
Get(args, key, default) == IF key \in DOMAIN args THEN args[key] ELSE default

FilletCreated(feature_id) == [kind |-> "Created fillet", feature_id |-> feature_id]
FilletApiError(code) ==
    [kind |-> "Error creating fillet: API returned", status_code |-> code]
FilletKeyError ==
    [kind |-> "Error creating fillet: Invalid fillet type",
     allowed |-> <<"EDGE", "FACE", "FULL_ROUND">>]
FilletUnexpectedError(message) == [kind |-> "Error creating fillet", message |-> message]

\* Lines 860-870: the builder as the handler has set it up.  Evaluated only
\* when no lookup of lines 860-867 raises KeyError.
FilletOfArguments(args) ==
    LET fillet == set_edges(FilletBuilder(Get(args, "name", "Fillet"),
                                          args.radius,
                                          Get(args, "filletType", "EDGE")),
                            args.edgeIds)
    IN  IF Truthy(Get(args, "variableRadius", <<>>))
        THEN set_radius(fillet, args.radius, args.variableRadius)
        ELSE fillet

\* Lines 860-867 raise KeyError: the enum lookup, or a missing argument.
FilletRaisesKeyError(args) ==
    \/ Get(args, "filletType", "EDGE") \notin FilletType
    \/ "radius" \notin DOMAIN args
    \/ "edgeIds" \notin DOMAIN args

\* Lines 858-879 and 897-911: the handler up to its one await.
FilletSubmit(c) ==
    /\ name[c] = "create_fillet"
    /\ pc[c] = "start"
    /\ IF FilletRaisesKeyError(arguments[c])
       THEN /\ result' = [result EXCEPT ![c] = FilletKeyError]
            /\ pc' = [pc EXCEPT ![c] = "done"]
            /\ UNCHANGED gateway
       ELSE LET fillet == FilletOfArguments(arguments[c])
            IN  IF FilletBuildError(fillet) # ""
                THEN /\ result' = [result EXCEPT ![c] =
                                     FilletUnexpectedError(FilletBuildError(fillet))]
                     /\ pc' = [pc EXCEPT ![c] = "done"]
                     /\ UNCHANGED gateway
                ELSE /\ gateway' = Append(gateway,
                                          [ caller   |-> c,
                                            op       |-> "add_feature",
                                            index    |-> 1,
                                            feature  |-> FilletFeature(fillet),
                                            response |-> Pending ])
                     /\ pc' = [pc EXCEPT ![c] = "await"]
                     /\ UNCHANGED result
    /\ UNCHANGED <<builder, built, name, arguments, features, i, feature_ids, sketch_ids, schema, nextId>>

\* Lines 874-886: add_feature returns.
FilletReturn(c) ==
    /\ name[c] = "create_fillet"
    /\ pc[c] = "await"
    /\ LET body == ResponseBody(ServiceId(nextId))
       IN  /\ gateway' = [gateway EXCEPT ![PendingOf(c)].response = Ok(body)]
           /\ result' = [result EXCEPT ![c] = FilletCreated(ReadFeatureId(body))]
    /\ nextId' = nextId + 1
    /\ pc' = [pc EXCEPT ![c] = "done"]
    /\ UNCHANGED <<builder, built, name, arguments, features, i, feature_ids, sketch_ids, schema>>

\* Lines 887-896: add_feature raises httpx.HTTPStatusError.
FilletRejected(c) ==
    /\ name[c] = "create_fillet"
    /\ pc[c] = "await"
    /\ \E code \in StatusCodes :
          /\ gateway' = [gateway EXCEPT ![PendingOf(c)].response = HTTPStatusError(code)]
          /\ result' = [result EXCEPT ![c] = FilletApiError(code)]
    /\ pc' = [pc EXCEPT ![c] = "done"]
    /\ UNCHANGED <<builder, built, name, arguments, features, i, feature_ids, sketch_ids, schema, nextId>>

\* Lines 904-911: add_feature raises another Exception.
FilletTransportFailure(c) ==
    /\ name[c] = "create_fillet"
    /\ pc[c] = "await"
    /\ gateway' = [gateway EXCEPT ![PendingOf(c)].response = TransportError]
    /\ result' = [result EXCEPT ![c] = FilletUnexpectedError(TransportError.message)]
    /\ pc' = [pc EXCEPT ![c] = "done"]
    /\ UNCHANGED <<builder, built, name, arguments, features, i, feature_ids, sketch_ids, schema, nextId>>

(***************************************************************************)
(* server.py, call_tool, name == "create_sketch"                           *)
(***************************************************************************)
\* plane_name.upper(), on the plane names of the model.
Upper(plane_name) ==
    CASE plane_name = "Front" -> "FRONT"
      [] plane_name = "Top"   -> "TOP"
      [] plane_name = "Right" -> "RIGHT"
      [] plane_name = "Side"  -> "SIDE"

\* The members of the enum SketchPlane (builders/sketch.py).
SketchPlane == {"FRONT", "TOP", "RIGHT"}

\* What partstudio_manager.get_plane_id answers for a plane of the element:
\* the identifier the remote service has for that plane.
PlaneId(plane_name) == "plane-" \o plane_name

\* result.get("feature", {}).get("featureId", "unknown")
ReadNestedFeatureId(body) ==
    IF "feature" \in DOMAIN body /\ "featureId" \in DOMAIN body.feature
    THEN body.feature.featureId
    ELSE "unknown"

\* The keys the loop reads from an entity of each type, in the order it
\* reads them.
RequiredKeys(entity_type) ==
    CASE entity_type = "line"      -> <<"start", "end">>
      [] entity_type = "circle"    -> <<"center", "radius">>
      [] entity_type = "rectangle" -> <<"corner1", "corner2">>

\* str(KeyError(key)) for the first key the loop misses, or "".
MissingKey(entity) ==
    LET missing == SelectSeq(RequiredKeys(entity.type),
                             LAMBDA key : key \notin DOMAIN entity)
    IN  IF missing = <<>> THEN "" ELSE "'" \o missing[1] \o "'"

\* The shape invariants add_line, add_circle and add_rectangle enforce
\* (specification, section 4.2): the message of the error, or "".
GeometryError(entity) ==
    IF entity.type = "circle" /\ entity.radius <= 0
    THEN "InvalidGeometry: non-positive radius"
    ELSE IF entity.type = "line" /\ entity.start = entity.end
    THEN "InvalidGeometry: identical line endpoints"
    ELSE IF /\ entity.type = "rectangle"
            /\ \/ entity.corner1[1] = entity.corner2[1]
               \/ entity.corner1[2] = entity.corner2[2]
    THEN "InvalidGeometry: coincident rectangle corners"
    ELSE ""

\* The record add_line, add_circle or add_rectangle appends to the sketch.
EntityRecord(entity) ==
    CASE entity.type = "line" ->
             [ type |-> "line", start |-> entity.start, end |-> entity.end,
               isConstruction |-> Get(entity, "isConstruction", FALSE) ]
      [] entity.type = "circle" ->
             CircleEntity(entity.radius, Get(entity, "isConstruction", FALSE))
      [] entity.type = "rectangle" ->
             [ type |-> "rectangle", corner1 |-> entity.corner1,
               corner2 |-> entity.corner2 ]

\* Lines 612-632, one turn of the loop: an entity of another type is passed
\* over; a missing key or a refused shape raises and ends the loop.
AddEntity(sketch, entity) ==
    IF sketch.error # "" THEN sketch
    ELSE IF Get(entity, "type", "None") \notin {"line", "circle", "rectangle"}
    THEN sketch
    ELSE IF MissingKey(entity) # ""
    THEN [sketch EXCEPT !.error = MissingKey(entity)]
    ELSE IF GeometryError(entity) # ""
    THEN [sketch EXCEPT !.error = GeometryError(entity)]
    ELSE [sketch EXCEPT !.entities = Append(@, EntityRecord(entity))]

RECURSIVE AddEntities(_, _, _)
AddEntities(sketch, entities, k) ==
    IF k > Len(entities) THEN sketch
    ELSE AddEntities(AddEntity(sketch, entities[k]), entities, k + 1)

SketchCreated(sketch_name, entity_count, plane_name, feature_id) ==
    [ kind         |-> "Created sketch",
      name         |-> sketch_name,
      entity_count |-> entity_count,
      plane_name   |-> plane_name,
      feature_id   |-> feature_id ]
SketchError(message) == [kind |-> "Error creating sketch", message |-> message]

\* str(e) of what an await raised.
ErrorText(error) ==
    IF error.status = "HTTPStatusError"
    THEN "HTTPStatusError " \o ToString(error.status_code)
    ELSE error.message

\* Lines 594-606: the plane name is looked up in SketchPlane and
\* get_plane_id is awaited.
SketchResolvePlane(c) ==
    /\ name[c] = "create_sketch"
    /\ pc[c] = "start"
    /\ LET plane_name == Get(arguments[c], "plane", "Front")
       IN  IF Upper(plane_name) \notin SketchPlane
           THEN /\ result' = [result EXCEPT ![c] =
                                 SketchError("'" \o Upper(plane_name) \o "'")]
                /\ pc' = [pc EXCEPT ![c] = "done"]
                /\ UNCHANGED gateway
           ELSE /\ gateway' = Append(gateway,
                                     [ caller     |-> c,
                                       op         |-> "get_plane_id",
                                       index      |-> 0,
                                       plane_name |-> plane_name,
                                       response   |-> Pending ])
                /\ pc' = [pc EXCEPT ![c] = "await_plane"]
                /\ UNCHANGED result
    /\ UNCHANGED <<builder, built, name, arguments, features, i, feature_ids, sketch_ids, schema, nextId>>

\* Lines 601-641: get_plane_id returns; the sketch is made with the plane
\* identifier, the entities are added, and the built feature is handed to
\* add_feature.
SketchSubmit(c) ==
    /\ name[c] = "create_sketch"
    /\ pc[c] = "await_plane"
    /\ LET plane_name == Get(arguments[c], "plane", "Front")
           plane_id == PlaneId(gateway[PendingOf(c)].plane_name)
           answered == [gateway EXCEPT ![PendingOf(c)].response = Ok(plane_id)]
           sketch == AddEntities([error |-> "", entities |-> <<>>],
                                 Get(arguments[c], "entities", <<>>), 1)
       IN  IF sketch.error # ""
           THEN /\ gateway' = answered
                /\ result' = [result EXCEPT ![c] = SketchError(sketch.error)]
                /\ pc' = [pc EXCEPT ![c] = "done"]
           ELSE /\ gateway' = Append(answered,
                                     [ caller   |-> c,
                                       op       |-> "add_feature",
                                       index    |-> 1,
                                       feature  |-> SketchBuilderBuild(
                                                       Get(arguments[c], "name", "Sketch"),
                                                       Upper(plane_name), plane_id,
                                                       sketch.entities),
                                       response |-> Pending ])
                /\ pc' = [pc EXCEPT ![c] = "await"]
                /\ UNCHANGED result
    /\ UNCHANGED <<builder, built, name, arguments, features, i, feature_ids, sketch_ids, schema, nextId>>

\* Lines 636-650: add_feature returns.
SketchReturn(c) ==
    /\ name[c] = "create_sketch"
    /\ pc[c] = "await"
    /\ LET body == ResponseBody(ServiceId(nextId))
           entity_count == Len(Get(arguments[c], "entities", <<>>))
       IN  /\ gateway' = [gateway EXCEPT ![PendingOf(c)].response = Ok(body)]
           /\ result' = [result EXCEPT ![c] =
                            SketchCreated(Get(arguments[c], "name", "Sketch"),
                                          entity_count,
                                          Get(arguments[c], "plane", "Front"),
                                          ReadNestedFeatureId(body))]
    /\ nextId' = nextId + 1
    /\ pc' = [pc EXCEPT ![c] = "done"]
    /\ UNCHANGED <<builder, built, name, arguments, features, i, feature_ids, sketch_ids, schema>>

\* Lines 652-658: get_plane_id or add_feature raises an Exception.
SketchFailure(c) ==
    /\ name[c] = "create_sketch"
    /\ pc[c] \in {"await_plane", "await"}
    /\ \E error \in {HTTPStatusError(code) : code \in StatusCodes} \cup {TransportError} :
          /\ gateway' = [gateway EXCEPT ![PendingOf(c)].response = error]
          /\ result' = [result EXCEPT ![c] = SketchError(ErrorText(error))]
    /\ pc' = [pc EXCEPT ![c] = "done"]
    /\ UNCHANGED <<builder, built, name, arguments, features, i, feature_ids, sketch_ids, schema, nextId>>

(***************************************************************************)
(* server.py, call_tool, name == "create_extrude" and "create_thicken"     *)
(*                                                                         *)
(* builders/extrude.py and builders/thicken.py are not part of the         *)
(* sources: the enums and the builders are modelled from the               *)
(* specification (sections 3 and 4.3) and from the tools' input schemas.   *)
(***************************************************************************)
\* The members of the enums ExtrudeType and ThickenType.
ExtrudeType == {"NEW", "ADD", "REMOVE", "INTERSECT"}
ThickenType == {"NEW", "ADD", "REMOVE", "INTERSECT"}

\* The serialized form of a Parameter Value: the literal, and as expression
\* "#" and the variable name when one is given, the literal and " in" if not.
QuantityParameter(parameterId, value, variable_name) ==
    [ btType      |-> "BTMParameterQuantity-147",
      isInteger   |-> FALSE,
      value       |-> value,
      expression  |-> IF Truthy(variable_name)
                      THEN "#" \o variable_name[1]
                      ELSE ToString(value) \o " in",
      parameterId |-> parameterId ]

\* build() of an ExtrudeBuilder or a ThickenBuilder without a sketch
\* reference fails: the message of the ValueError, or "".
SketchReferenceError(sketch_feature_id) ==
    IF sketch_feature_id = "" THEN "Sketch feature ID must be set" ELSE ""

\* ExtrudeBuilder(name, sketch_feature_id, operation_type)
\*     .set_depth(depth, variable_name).build()
ExtrudeBuilderBuild(extrude_name, sketch_feature_id, operation_type, depth, variable_name) ==
    [ btType  |-> "BTFeatureDefinitionCall-1406",
      feature |->
        [ btType      |-> "BTMFeature-134",
          featureType |-> "extrude",
          name        |-> extrude_name,
          parameters  |-> <<
            [ parameterId |-> "entities", featureId |-> sketch_feature_id ],
            [ parameterId |-> "operationType", value |-> operation_type ],
            QuantityParameter("depth", depth, variable_name) >> ] ]

\* ThickenBuilder(name, sketch_feature_id, operation_type)
\*     .set_thickness(thickness, variable_name) with set_midplane and
\*     set_opposite_direction, and build()
ThickenBuilderBuild(thicken_name, sketch_feature_id, operation_type, thickness, variable_name, midplane, opposite_direction) ==
    [ btType  |-> "BTFeatureDefinitionCall-1406",
      feature |->
        [ btType      |-> "BTMFeature-134",
          featureType |-> "thicken",
          name        |-> thicken_name,
          parameters  |-> <<
            [ parameterId |-> "entities", featureId |-> sketch_feature_id ],
            [ parameterId |-> "operationType", value |-> operation_type ],
            QuantityParameter("thickness", thickness, variable_name),
            [ parameterId |-> "midplane", value |-> midplane ],
            [ parameterId |-> "oppositeDirection", value |-> opposite_direction ] >> ] ]

\* Truth value of arguments.get(key) for a boolean argument.
Flag(args, key) == Get(args, key, FALSE)

ExtrudeCreated(feature_id) == [kind |-> "Created extrude", feature_id |-> feature_id]
ExtrudeApiError(code) ==
    [kind |-> "Error creating extrude: API returned", status_code |-> code]
ExtrudeKeyError ==
    [kind |-> "Error creating extrude: Invalid operation type",
     allowed |-> <<"NEW", "ADD", "REMOVE", "INTERSECT">>]
ExtrudeValueError(message) ==
    [kind |-> "Error creating extrude", message |-> message, hint |-> FALSE]
ExtrudeUnexpectedError(message) ==
    [kind |-> "Error creating extrude", message |-> message, hint |-> TRUE]

\* Only a missing argument raises KeyError.
ExtrudeRaisesKeyErrorWhenMissing(args) ==
    \/ "sketchFeatureId" \notin DOMAIN args
    \/ "depth" \notin DOMAIN args

\* Lines 916-923: the enum lookup, or a missing argument, raises KeyError.
ExtrudeRaisesKeyError(args) ==
    \/ Get(args, "operationType", "NEW") \notin ExtrudeType
    \/ "sketchFeatureId" \notin DOMAIN args
    \/ "depth" \notin DOMAIN args

\* Lines 916-926: the builder is set up and builds.  Evaluated only when no
\* lookup raises KeyError.
ExtrudeOfArguments(args) ==
    ExtrudeBuilderBuild(Get(args, "name", "Extrude"), args.sketchFeatureId,
                        Get(args, "operationType", "NEW"), args.depth,
                        Get(args, "variableDepth", <<>>))

\* Lines 914-933 and 951-971: the handler up to its one await.
ExtrudeSubmit(c) ==
    /\ name[c] = "create_extrude"
    /\ pc[c] = "start"
    /\ IF ExtrudeRaisesKeyError(arguments[c])
       THEN /\ result' = [result EXCEPT ![c] = ExtrudeKeyError]
            /\ pc' = [pc EXCEPT ![c] = "done"]
            /\ UNCHANGED gateway
       ELSE IF SketchReferenceError(arguments[c].sketchFeatureId) # ""
       THEN /\ result' = [result EXCEPT ![c] =
                ExtrudeValueError(SketchReferenceError(arguments[c].sketchFeatureId))]
            /\ pc' = [pc EXCEPT ![c] = "done"]
            /\ UNCHANGED gateway
       ELSE /\ gateway' = Append(gateway,
                                 [ caller   |-> c,
                                   op       |-> "add_feature",
                                   index    |-> 1,
                                   feature  |-> ExtrudeOfArguments(arguments[c]),
                                   response |-> Pending ])
            /\ pc' = [pc EXCEPT ![c] = "await"]
            /\ UNCHANGED result
    /\ UNCHANGED <<builder, built, name, arguments, features, i, feature_ids, sketch_ids, schema, nextId>>

\* Lines 927-939: add_feature returns.
ExtrudeReturn(c) ==
    /\ name[c] = "create_extrude"
    /\ pc[c] = "await"
    /\ LET body == ResponseBody(ServiceId(nextId))
       IN  /\ gateway' = [gateway EXCEPT ![PendingOf(c)].response = Ok(body)]
           /\ result' = [result EXCEPT ![c] = ExtrudeCreated(ReadFeatureId(body))]
    /\ nextId' = nextId + 1
    /\ pc' = [pc EXCEPT ![c] = "done"]
    /\ UNCHANGED <<builder, built, name, arguments, features, i, feature_ids, sketch_ids, schema>>

\* Lines 940-949: add_feature raises httpx.HTTPStatusError.
ExtrudeRejected(c) ==
    /\ name[c] = "create_extrude"
    /\ pc[c] = "await"
    /\ \E code \in StatusCodes :
          /\ gateway' = [gateway EXCEPT ![PendingOf(c)].response = HTTPStatusError(code)]
          /\ result' = [result EXCEPT ![c] = ExtrudeApiError(code)]
    /\ pc' = [pc EXCEPT ![c] = "done"]
    /\ UNCHANGED <<builder, built, name, arguments, features, i, feature_ids, sketch_ids, schema, nextId>>

\* Lines 964-971: add_feature raises another Exception.
ExtrudeTransportFailure(c) ==
    /\ name[c] = "create_extrude"
    /\ pc[c] = "await"
    /\ gateway' = [gateway EXCEPT ![PendingOf(c)].response = TransportError]
    /\ result' = [result EXCEPT ![c] = ExtrudeUnexpectedError(TransportError.message)]
    /\ pc' = [pc EXCEPT ![c] = "done"]
    /\ UNCHANGED <<builder, built, name, arguments, features, i, feature_ids, sketch_ids, schema, nextId>>

ThickenCreated(feature_id) == [kind |-> "Created thicken", feature_id |-> feature_id]
ThickenApiError(code) ==
    [kind |-> "Error creating thicken: API returned", status_code |-> code]
ThickenKeyError ==
    [kind |-> "Error creating thicken: Invalid operation type",
     allowed |-> <<"NEW", "ADD", "REMOVE", "INTERSECT">>]
ThickenValueError(message) ==
    [kind |-> "Error creating thicken", message |-> message, hint |-> FALSE]
ThickenUnexpectedError(message) ==
    [kind |-> "Error creating thicken", message |-> message, hint |-> TRUE]

\* Only a missing argument raises KeyError.
ThickenRaisesKeyErrorWhenMissing(args) ==
    \/ "sketchFeatureId" \notin DOMAIN args
    \/ "thickness" \notin DOMAIN args

\* Lines 1059-1068: the enum lookup, or a missing argument, raises KeyError.
ThickenRaisesKeyError(args) ==
    \/ Get(args, "operationType", "NEW") \notin ThickenType
    \/ "sketchFeatureId" \notin DOMAIN args
    \/ "thickness" \notin DOMAIN args

\* Lines 1059-1077: the builder is set up and builds.  Evaluated only when no
\* lookup raises KeyError.
ThickenOfArguments(args) ==
    ThickenBuilderBuild(Get(args, "name", "Thicken"), args.sketchFeatureId,
                        Get(args, "operationType", "NEW"), args.thickness,
                        Get(args, "variableThickness", <<>>),
                        Flag(args, "midplane"), Flag(args, "oppositeDirection"))

\* Lines 1057-1084 and 1102-1122: the handler up to its one await.
ThickenSubmit(c) ==
    /\ name[c] = "create_thicken"
    /\ pc[c] = "start"
    /\ IF ThickenRaisesKeyError(arguments[c])
       THEN /\ result' = [result EXCEPT ![c] = ThickenKeyError]
            /\ pc' = [pc EXCEPT ![c] = "done"]
            /\ UNCHANGED gateway
       ELSE IF SketchReferenceError(arguments[c].sketchFeatureId) # ""
       THEN /\ result' = [result EXCEPT ![c] =
                ThickenValueError(SketchReferenceError(arguments[c].sketchFeatureId))]
            /\ pc' = [pc EXCEPT ![c] = "done"]
            /\ UNCHANGED gateway
       ELSE /\ gateway' = Append(gateway,
                                 [ caller   |-> c,
                                   op       |-> "add_feature",
                                   index    |-> 1,
                                   feature  |-> ThickenOfArguments(arguments[c]),
                                   response |-> Pending ])
            /\ pc' = [pc EXCEPT ![c] = "await"]
            /\ UNCHANGED result
    /\ UNCHANGED <<builder, built, name, arguments, features, i, feature_ids, sketch_ids, schema, nextId>>

\* Lines 1078-1090: add_feature returns.
ThickenReturn(c) ==
    /\ name[c] = "create_thicken"
    /\ pc[c] = "await"
    /\ LET body == ResponseBody(ServiceId(nextId))
       IN  /\ gateway' = [gateway EXCEPT ![PendingOf(c)].response = Ok(body)]
           /\ result' = [result EXCEPT ![c] = ThickenCreated(ReadFeatureId(body))]
    /\ nextId' = nextId + 1
    /\ pc' = [pc EXCEPT ![c] = "done"]
    /\ UNCHANGED <<builder, built, name, arguments, features, i, feature_ids, sketch_ids, schema>>

\* Lines 1091-1100: add_feature raises httpx.HTTPStatusError.
ThickenRejected(c) ==
    /\ name[c] = "create_thicken"
    /\ pc[c] = "await"
    /\ \E code \in StatusCodes :
          /\ gateway' = [gateway EXCEPT ![PendingOf(c)].response = HTTPStatusError(code)]
          /\ result' = [result EXCEPT ![c] = ThickenApiError(code)]
    /\ pc' = [pc EXCEPT ![c] = "done"]
    /\ UNCHANGED <<builder, built, name, arguments, features, i, feature_ids, sketch_ids, schema, nextId>>

\* Lines 1115-1122: add_feature raises another Exception.
ThickenTransportFailure(c) ==
    /\ name[c] = "create_thicken"
    /\ pc[c] = "await"
    /\ gateway' = [gateway EXCEPT ![PendingOf(c)].response = TransportError]
    /\ result' = [result EXCEPT ![c] = ThickenUnexpectedError(TransportError.message)]
    /\ pc' = [pc EXCEPT ![c] = "done"]
    /\ UNCHANGED <<builder, built, name, arguments, features, i, feature_ids, sketch_ids, schema, nextId>>

(***************************************************************************)
(* api/edges.py                                                            *)
(*                                                                         *)
(* Lengths are whole thousandths of an inch.  The JSON value of "result"   *)
(* is JsonObject(fields) when it is an object, JsonOther when it is not.   *)
(***************************************************************************)
JsonObject(fields) == [object |-> TRUE, fields |-> fields]
JsonOther == [object |-> FALSE]

Abs(x) == IF x < 0 THEN -x ELSE x

\* The radius must be closer than the tolerance.
WithinToleranceStrict(edge_radius, radius, tolerance) ==
    Abs(edge_radius - radius) < tolerance

\* Line 125: abs(edge_radius - radius) <= tolerance
WithinTolerance(edge_radius, radius, tolerance) ==
    Abs(edge_radius - radius) <= tolerance

\* Lines 116-127, one turn of the loop: the edge's deterministicId is
\* appended.  `radius` is <<>> for None, <<r>> for the filter r.
IsAppended(edge, radius, tolerance) ==
    /\ "radius" \in DOMAIN edge
    /\ \/ radius = <<>>
       \/ WithinTolerance(edge.radius, radius[1], tolerance)
    /\ "deterministicId" \in DOMAIN edge
    /\ edge.deterministicId # ""

\* EdgeQuery.find_circular_edges, lines 106-129, for the answer all_edges of
\* get_edges.
find_circular_edges(all_edges, radius, tolerance) ==
    LET result_value == Get(all_edges, "result", JsonObject(<<>>))
    IN  IF ~result_value.object \/ "value" \notin DOMAIN result_value.fields
        THEN <<>>
        ELSE LET circular == SelectSeq(result_value.fields.value,
                                       LAMBDA edge : IsAppended(edge, radius, tolerance))
             IN  [k \in 1..Len(circular) |-> circular[k].deterministicId]

\* The edges of an answer: with or without a radius, with or without a
\* deterministicId, which may be empty.
EdgeRadii == {250, 251, 252}
Edges ==
    LET Optional(key, values) == {<<>>} \cup {<<key, v>> : v \in values}
        Object(pairs) ==
            [key \in {p[1] : p \in pairs \ {<<>>}} |->
                (CHOOSE p \in pairs \ {<<>>} : p[1] = key)[2]]
    IN  { Object({r, d}) : r \in Optional("radius", EdgeRadii),
                           d \in Optional("deterministicId", EdgeIds \cup {""}) }

\* The answers of the featurescript endpoint: a list of edges in
\* result.value, or no "result", or a "result" without "value", or a
\* "result" that is not an object.
EdgeResponses ==
    { [result |-> JsonObject([value |-> edges])] : edges \in SeqUpTo(Edges, MaxEdges) }
    \cup { <<>>, [result |-> JsonObject(<<>>)], [result |-> JsonOther] }

\* find_circular_edges is called and get_edges posts its script
\* (lines 18-82, 106).
EdgeQueryGetEdges ==
    /\ builder.class = "EdgeQuery"
    /\ built = NotBuilt
    /\ gateway' = Append(gateway,
                         [ caller   |-> 0,
                           op       |-> "featurescript",
                           index    |-> 0,
                           response |-> Pending ])
    /\ built' = [status |-> "awaiting"]
    /\ UNCHANGED <<builder, name, pc, arguments, features, i, feature_ids, sketch_ids, result, schema, nextId>>

\* The post returns and lines 108-129 run.
EdgeQueryReturn ==
    /\ builder.class = "EdgeQuery"
    /\ built.status = "awaiting"
    /\ \E all_edges \in EdgeResponses :
          /\ gateway' = [gateway EXCEPT ![Len(gateway)].response = Ok(all_edges)]
          /\ built' = [ status   |-> "list",
                        edge_ids |-> find_circular_edges(all_edges, builder.object.radius,
                                                         builder.object.tolerance),
                        of       |-> builder.object ]
    /\ UNCHANGED <<builder, name, pc, arguments, features, i, feature_ids, sketch_ids, result, schema, nextId>>

\* The post raises: find_circular_edges has no except clause.
EdgeQueryFailure ==
    /\ builder.class = "EdgeQuery"
    /\ built.status = "awaiting"
    /\ \E error \in {HTTPStatusError(code) : code \in StatusCodes} \cup {TransportError} :
          /\ gateway' = [gateway EXCEPT ![Len(gateway)].response = error]
          /\ built' = [status |-> "raised", error |-> error, of |-> builder.object]
    /\ UNCHANGED <<builder, name, pc, arguments, features, i, feature_ids, sketch_ids, result, schema, nextId>>

(***************************************************************************)
(* server.py, call_tool, name == "create_sketch_rectangle",                *)
(* "create_sketch_line", "create_sketch_circle"                            *)
(***************************************************************************)
ShapeTools == {"create_sketch_rectangle", "create_sketch_line", "create_sketch_circle"}

\* The add_ method each of the three handlers calls.
ShapeOf(tool) ==
    CASE tool = "create_sketch_rectangle" -> "rectangle"
      [] tool = "create_sketch_line"      -> "line"
      [] tool = "create_sketch_circle"    -> "circle"

\* The one entity of the sketch: its fields are read from the arguments.
ShapeEntity(tool, args) ==
    [key \in DOMAIN args \cup {"type"} |->
        IF key = "type" THEN ShapeOf(tool) ELSE args[key]]

\* The texts of lines 694-709, 745-759 and 796-810.
ShapeCreated(tool, sketch_name, plane_name, feature_id) ==
    [ kind       |-> "Created sketch with " \o ShapeOf(tool),
      name       |-> sketch_name,
      plane_name |-> plane_name,
      feature_id |-> feature_id ]
ShapeError(tool, message) ==
    [ kind    |-> IF tool = "create_sketch_rectangle" THEN "Error creating sketch"
                  ELSE "Error creating sketch " \o ShapeOf(tool),
      message |-> message ]

\* The plane name is looked up in SketchPlane and get_plane_id is awaited.
ShapeResolvePlane(c) ==
    /\ name[c] \in ShapeTools
    /\ pc[c] = "start"
    /\ LET plane_name == Get(arguments[c], "plane", "Front")
       IN  IF Upper(plane_name) \notin SketchPlane
           THEN /\ result' = [result EXCEPT ![c] =
                                 ShapeError(name[c], "'" \o Upper(plane_name) \o "'")]
                /\ pc' = [pc EXCEPT ![c] = "done"]
                /\ UNCHANGED gateway
           ELSE /\ gateway' = Append(gateway,
                                     [ caller     |-> c,
                                       op         |-> "get_plane_id",
                                       index      |-> 0,
                                       plane_name |-> plane_name,
                                       response   |-> Pending ])
                /\ pc' = [pc EXCEPT ![c] = "await_plane"]
                /\ UNCHANGED result
    /\ UNCHANGED <<builder, built, name, arguments, features, i, feature_ids, sketch_ids, schema, nextId>>

\* get_plane_id returns; the sketch is made, its one entity is added, and the
\* built feature is handed to add_feature.
ShapeSubmit(c) ==
    /\ name[c] \in ShapeTools
    /\ pc[c] = "await_plane"
    /\ LET plane_name == Get(arguments[c], "plane", "Front")
           plane_id == PlaneId(gateway[PendingOf(c)].plane_name)
           answered == [gateway EXCEPT ![PendingOf(c)].response = Ok(plane_id)]
           sketch == AddEntity([error |-> "", entities |-> <<>>],
                               ShapeEntity(name[c], arguments[c]))
       IN  IF sketch.error # ""
           THEN /\ gateway' = answered
                /\ result' = [result EXCEPT ![c] = ShapeError(name[c], sketch.error)]
                /\ pc' = [pc EXCEPT ![c] = "done"]
           ELSE /\ gateway' = Append(answered,
                                     [ caller   |-> c,
                                       op       |-> "add_feature",
                                       index    |-> 1,
                                       feature  |-> SketchBuilderBuild(
                                                       Get(arguments[c], "name", "Sketch"),
                                                       Upper(plane_name), plane_id,
                                                       sketch.entities),
                                       response |-> Pending ])
                /\ pc' = [pc EXCEPT ![c] = "await"]
                /\ UNCHANGED result
    /\ UNCHANGED <<builder, built, name, arguments, features, i, feature_ids, sketch_ids, schema, nextId>>

\* add_feature returns.
ShapeReturn(c) ==
    /\ name[c] \in ShapeTools
    /\ pc[c] = "await"
    /\ LET body == ResponseBody(ServiceId(nextId))
       IN  /\ gateway' = [gateway EXCEPT ![PendingOf(c)].response = Ok(body)]
           /\ result' = [result EXCEPT ![c] =
                            ShapeCreated(name[c], Get(arguments[c], "name", "Sketch"),
                                         Get(arguments[c], "plane", "Front"),
                                         ReadNestedFeatureId(body))]
    /\ nextId' = nextId + 1
    /\ pc' = [pc EXCEPT ![c] = "done"]
    /\ UNCHANGED <<builder, built, name, arguments, features, i, feature_ids, sketch_ids, schema>>

\* get_plane_id or add_feature raises an Exception.
ShapeFailure(c) ==
    /\ name[c] \in ShapeTools
    /\ pc[c] \in {"await_plane", "await"}
    /\ \E error \in {HTTPStatusError(code) : code \in StatusCodes} \cup {TransportError} :
          /\ gateway' = [gateway EXCEPT ![PendingOf(c)].response = error]
          /\ result' = [result EXCEPT ![c] = ShapeError(name[c], ErrorText(error))]
    /\ pc' = [pc EXCEPT ![c] = "done"]
    /\ UNCHANGED <<builder, built, name, arguments, features, i, feature_ids, sketch_ids, schema, nextId>>

(***************************************************************************)
(* server.py, call_tool, name == "create_hole"                             *)
(***************************************************************************)
HoleCreated(feature_id) == [kind |-> "Created hole", feature_id |-> feature_id]
HoleApiError(code) == [kind |-> "Error creating hole: API returned", status_code |-> code]
HoleError(message) == [kind |-> "Error creating hole", message |-> message]

\* str(e) of what lines 815-824 raise before the await, or "": the KeyError
\* of a missing argument, the ValueError of build().
HoleLocalError(args) ==
    IF "sketchFeatureId" \notin DOMAIN args THEN "'sketchFeatureId'"
    ELSE IF "depth" \notin DOMAIN args THEN "'depth'"
    ELSE SketchReferenceError(args.sketchFeatureId)

\* Lines 813-831: the handler up to its one await.
HoleSubmit(c) ==
    /\ name[c] = "create_hole"
    /\ pc[c] = "start"
    /\ IF HoleLocalError(arguments[c]) # ""
       THEN /\ result' = [result EXCEPT ![c] = HoleError(HoleLocalError(arguments[c]))]
            /\ pc' = [pc EXCEPT ![c] = "done"]
            /\ UNCHANGED gateway
       ELSE /\ gateway' = Append(gateway,
                                 [ caller   |-> c,
                                   op       |-> "add_feature",
                                   index    |-> 1,
                                   feature  |-> ExtrudeBuilderBuild(
                                                   Get(arguments[c], "name", "Hole"),
                                                   arguments[c].sketchFeatureId, "REMOVE",
                                                   arguments[c].depth,
                                                   Get(arguments[c], "variableDepth", <<>>)),
                                   response |-> Pending ])
            /\ pc' = [pc EXCEPT ![c] = "await"]
            /\ UNCHANGED result
    /\ UNCHANGED <<builder, built, name, arguments, features, i, feature_ids, sketch_ids, schema, nextId>>

\* Lines 826-837: add_feature returns.
HoleReturn(c) ==
    /\ name[c] = "create_hole"
    /\ pc[c] = "await"
    /\ LET body == ResponseBody(ServiceId(nextId))
       IN  /\ gateway' = [gateway EXCEPT ![PendingOf(c)].response = Ok(body)]
           /\ result' = [result EXCEPT ![c] = HoleCreated(ReadFeatureId(body))]
    /\ nextId' = nextId + 1
    /\ pc' = [pc EXCEPT ![c] = "done"]
    /\ UNCHANGED <<builder, built, name, arguments, features, i, feature_ids, sketch_ids, schema>>

\* Lines 838-847: add_feature raises httpx.HTTPStatusError.
HoleRejected(c) ==
    /\ name[c] = "create_hole"
    /\ pc[c] = "await"
    /\ \E code \in StatusCodes :
          /\ gateway' = [gateway EXCEPT ![PendingOf(c)].response = HTTPStatusError(code)]
          /\ result' = [result EXCEPT ![c] = HoleApiError(code)]
    /\ pc' = [pc EXCEPT ![c] = "done"]
    /\ UNCHANGED <<builder, built, name, arguments, features, i, feature_ids, sketch_ids, schema, nextId>>

\* Lines 848-855: add_feature raises another Exception.
HoleTransportFailure(c) ==
    /\ name[c] = "create_hole"
    /\ pc[c] = "await"
    /\ gateway' = [gateway EXCEPT ![PendingOf(c)].response = TransportError]
    /\ result' = [result EXCEPT ![c] = HoleError(TransportError.message)]
    /\ pc' = [pc EXCEPT ![c] = "done"]
    /\ UNCHANGED <<builder, built, name, arguments, features, i, feature_ids, sketch_ids, schema, nextId>>

(***************************************************************************)
(* server.py, call_tool, the tools that make one remote call and report    *)
(* what it answered (lines 1124-1588)                                      *)
(***************************************************************************)
\* The arguments each handler reads by subscript for its remote call, in the
\* order it reads them.
RequiredArguments(tool) ==
    CASE tool = "get_variables"        -> <<"documentId", "workspaceId", "elementId">>
      [] tool = "set_variable"         -> <<"documentId", "workspaceId", "elementId",
                                            "name", "expression">>
      [] tool = "get_features"         -> <<"documentId", "workspaceId", "elementId">>
      [] tool = "list_documents"       -> <<>>
      [] tool = "search_documents"     -> <<"query">>
      [] tool = "get_document"         -> <<"documentId">>
      [] tool = "get_document_summary" -> <<"documentId">>
      [] tool = "find_part_studios"    -> <<"documentId", "workspaceId">>
      [] tool = "get_parts"            -> <<"documentId", "workspaceId", "elementId">>
      [] tool = "get_elements"         -> <<"documentId", "workspaceId">>
      [] tool = "get_assembly"         -> <<"documentId", "workspaceId", "elementId">>

QueryTools ==
    {"get_variables", "set_variable", "get_features", "list_documents",
     "search_documents", "get_document", "get_document_summary",
     "find_part_studios", "get_parts", "get_elements", "get_assembly"}

\* The text of the return inside the try, of `except httpx.HTTPStatusError`
\* and of `except Exception` of the handler of `tool`.
QueryText(tool) == [kind |-> "Text", tool |-> tool]
QueryApiError(tool, code) == [kind |-> "Error: API returned", tool |-> tool, status_code |-> code]
QueryError(tool, message) == [kind |-> "Error", tool |-> tool, message |-> message]

\* The handler up to its one await: a missing argument raises KeyError.
QuerySubmit(c) ==
    /\ name[c] \in QueryTools
    /\ pc[c] = "start"
    /\ LET missing == SelectSeq(RequiredArguments(name[c]),
                                LAMBDA key : key \notin DOMAIN arguments[c])
       IN  IF missing # <<>>
           THEN /\ result' = [result EXCEPT ![c] =
                                 QueryError(name[c], "'" \o missing[1] \o "'")]
                /\ pc' = [pc EXCEPT ![c] = "done"]
                /\ UNCHANGED gateway
           ELSE /\ gateway' = Append(gateway,
                                     [ caller   |-> c,
                                       op       |-> name[c],
                                       index    |-> 0,
                                       response |-> Pending ])
                /\ pc' = [pc EXCEPT ![c] = "await"]
                /\ UNCHANGED result
    /\ UNCHANGED <<builder, built, name, arguments, features, i, feature_ids, sketch_ids, schema, nextId>>

\* The remote call returns and its answer is put into the text.
QueryReturn(c) ==
    /\ name[c] \in QueryTools
    /\ pc[c] = "await"
    /\ gateway' = [gateway EXCEPT ![PendingOf(c)].response = Ok(<<>>)]
    /\ result' = [result EXCEPT ![c] = QueryText(name[c])]
    /\ pc' = [pc EXCEPT ![c] = "done"]
    /\ UNCHANGED <<builder, built, name, arguments, features, i, feature_ids, sketch_ids, schema, nextId>>

\* The remote call raises httpx.HTTPStatusError.
QueryRejected(c) ==
    /\ name[c] \in QueryTools
    /\ pc[c] = "await"
    /\ \E code \in StatusCodes :
          /\ gateway' = [gateway EXCEPT ![PendingOf(c)].response = HTTPStatusError(code)]
          /\ result' = [result EXCEPT ![c] = QueryApiError(name[c], code)]
    /\ pc' = [pc EXCEPT ![c] = "done"]
    /\ UNCHANGED <<builder, built, name, arguments, features, i, feature_ids, sketch_ids, schema, nextId>>

\* The exception leaves call_tool: no except clause takes it.
QueryTransportFailurePropagates(c) ==
    /\ name[c] \in QueryTools
    /\ pc[c] = "await"
    /\ gateway' = [gateway EXCEPT ![PendingOf(c)].response = TransportError]
    /\ pc' = [pc EXCEPT ![c] = "raised"]
    /\ UNCHANGED <<builder, built, name, arguments, features, i, feature_ids, sketch_ids, result, schema, nextId>>

\* The remote call raises another Exception.
QueryTransportFailure(c) ==
    /\ name[c] \in QueryTools
    /\ pc[c] = "await"
    /\ gateway' = [gateway EXCEPT ![PendingOf(c)].response = TransportError]
    /\ result' = [result EXCEPT ![c] = QueryError(name[c], TransportError.message)]
    /\ pc' = [pc EXCEPT ![c] = "done"]
    /\ UNCHANGED <<builder, built, name, arguments, features, i, feature_ids, sketch_ids, schema, nextId>>

(***************************************************************************)
(* server.py, call_tool, the final else                                    *)
(***************************************************************************)
\* The names list_tools declares (lines 45-586).
ToolNames ==
    {"create_stepped_extrude", "create_fillet", "create_sketch",
     "create_extrude", "create_thicken", "create_hole"}
    \cup ShapeTools \cup QueryTools

\* What call_tool raised instead of returning.
Raises(exception, message) ==
    [kind |-> "raise", exception |-> exception, message |-> message]

\* Lines 1590-1591: no branch has the name.
UnknownTool(c) ==
    /\ pc[c] = "start"
    /\ name[c] \notin ToolNames
    /\ result' = [result EXCEPT ![c] = Raises("ValueError", "Unknown tool: " \o name[c])]
    /\ pc' = [pc EXCEPT ![c] = "raised"]
    /\ UNCHANGED <<builder, built, name, arguments, features, i, feature_ids, sketch_ids, gateway, schema, nextId>>

(***************************************************************************)
(* Specifications.                                                         *)
(***************************************************************************)
\* The create_stepped_extrude requests: any two lists, of equal length or not.
Requests ==
    { [radii |-> r, depths |-> d] : r \in SeqUpTo(Radii, MaxSteps),
                                    d \in SeqUpTo(Depths, MaxSteps) }

\* The create_fillet requests: an arguments object with or without each key.
EdgeIdLists == {<<>>, <<"JHD">>, <<"JHD", "JHK">>}
FilletRequests ==
    LET Optional(key, values) == {<<>>} \cup {<<key, v>> : v \in values}
        Object(pairs) ==
            [key \in {p[1] : p \in pairs \ {<<>>}} |->
                (CHOOSE p \in pairs \ {<<>>} : p[1] = key)[2]]
    IN  { Object({t, r, e, v}) :
            t \in Optional("filletType", FilletType \cup {"CHAMFER"}),
            r \in Optional("radius", {1}),
            e \in Optional("edgeIds", EdgeIdLists),
            v \in Optional("variableRadius", {<<"">>, <<"fillet_r">>}) }

\* The create_sketch requests: with or without a plane, valid or not, and
\* with or without a list of entities.
Point00 == <<0, 0>>
Point11 == <<1, 1>>
Entities ==
    { [type |-> "circle", center |-> Point00, radius |-> 1],
      [type |-> "circle", center |-> Point00, radius |-> 0],
      [type |-> "circle", center |-> Point00],
      [type |-> "line", start |-> Point00, end |-> Point11],
      [type |-> "rectangle", corner1 |-> Point00, corner2 |-> Point11],
      [type |-> "arc", center |-> Point00, radius |-> 1] }
SketchRequests ==
    LET Optional(key, values) == {<<>>} \cup {<<key, v>> : v \in values}
        Object(pairs) ==
            [key \in {p[1] : p \in pairs \ {<<>>}} |->
                (CHOOSE p \in pairs \ {<<>>} : p[1] = key)[2]]
    IN  { Object({p, e}) :
            p \in Optional("plane", {"Top", "Side"}),
            e \in Optional("entities", SeqUpTo(Entities, MaxEntities)) }

\* The create_extrude and create_thicken requests: an arguments object with
\* or without each key, its operationType in the enum or not.
ExtrudeRequests ==
    LET Optional(key, values) == {<<>>} \cup {<<key, v>> : v \in values}
        Object(pairs) ==
            [key \in {p[1] : p \in pairs \ {<<>>}} |->
                (CHOOSE p \in pairs \ {<<>>} : p[1] = key)[2]]
    IN  { Object({t, s, d, v}) :
            t \in Optional("operationType", {"NEW", "REMOVE", "CUT"}),
            s \in Optional("sketchFeatureId", {"F1", ""}),
            d \in Optional("depth", {1}),
            v \in Optional("variableDepth", {<<"depth_v">>}) }
ThickenRequests ==
    LET Optional(key, values) == {<<>>} \cup {<<key, v>> : v \in values}
        Object(pairs) ==
            [key \in {p[1] : p \in pairs \ {<<>>}} |->
                (CHOOSE p \in pairs \ {<<>>} : p[1] = key)[2]]
    IN  { Object({t, s, d, m}) :
            t \in Optional("operationType", {"NEW", "REMOVE", "CUT"}),
            s \in Optional("sketchFeatureId", {"F1", ""}),
            d \in Optional("thickness", {1}),
            m \in Optional("midplane", {TRUE}) }

\* The requests of the three one-entity sketch tools and of create_hole.
ShapeRequests(tool) ==
    LET Optional(key, values) == {<<>>} \cup {<<key, v>> : v \in values}
        Object(pairs) ==
            [key \in {p[1] : p \in pairs \ {<<>>}} |->
                (CHOOSE p \in pairs \ {<<>>} : p[1] = key)[2]]
        first == CASE tool = "create_sketch_rectangle" -> Optional("corner1", {Point00})
                   [] tool = "create_sketch_line"      -> Optional("start", {Point00})
                   [] tool = "create_sketch_circle"    -> Optional("center", {Point00})
        second == CASE tool = "create_sketch_rectangle" -> Optional("corner2", {Point00, Point11})
                    [] tool = "create_sketch_line"      -> Optional("end", {Point00, Point11})
                    [] tool = "create_sketch_circle"    -> Optional("radius", {0, 1})
    IN  { Object({p, a, b}) : p \in Optional("plane", {"Top", "Side"}), a \in first, b \in second }
HoleRequests ==
    LET Optional(key, values) == {<<>>} \cup {<<key, v>> : v \in values}
        Object(pairs) ==
            [key \in {p[1] : p \in pairs \ {<<>>}} |->
                (CHOOSE p \in pairs \ {<<>>} : p[1] = key)[2]]
    IN  { Object({s, d}) : s \in Optional("sketchFeatureId", {"F1", ""}),
                           d \in Optional("depth", {1}) }

\* The requests of a one-call tool: any of its arguments may be missing.
QueryRequests(tool) ==
    { [key \in keys |-> "id"] : keys \in SUBSET Range(RequiredArguments(tool)) }

\* A name list_tools does not declare.
CalledNames == ToolNames \cup {"create_chamfer"}

RequestsTo(tool) ==
    CASE tool = "create_stepped_extrude" -> Requests
      [] tool = "create_fillet"          -> FilletRequests
      [] tool = "create_sketch"          -> SketchRequests
      [] tool = "create_extrude"         -> ExtrudeRequests
      [] tool = "create_thicken"         -> ThickenRequests
      [] tool = "create_hole"            -> HoleRequests
      [] tool \in ShapeTools             -> ShapeRequests(tool)
      [] tool \in QueryTools             -> QueryRequests(tool)
      [] OTHER                           -> {<<>>}

NoRequest == [radii |-> <<>>, depths |-> <<>>]

\* The invocations in `active` have been called and have not run yet; the
\* others are never called.
InitWith(active) ==
    /\ \E tools \in [active -> CalledNames] :
          /\ name = [c \in Calls |-> IF c \in active THEN tools[c] ELSE ""]
          /\ \E requests \in [active -> UNION {RequestsTo(tool) : tool \in CalledNames}] :
                /\ \A c \in active : requests[c] \in RequestsTo(tools[c])
                /\ arguments = [c \in Calls |->
                                   IF c \in active THEN requests[c] ELSE NoRequest]
    /\ pc = [c \in Calls |-> IF c \in active THEN "start" ELSE "idle"]
    /\ features = [c \in Calls |-> <<>>]
    /\ i = [c \in Calls |-> 1]
    /\ feature_ids = [c \in Calls |-> <<>>]
    /\ sketch_ids = [c \in Calls |-> <<>>]
    /\ result = [c \in Calls |-> NoResult]
    /\ gateway = <<>>
    /\ schema \in Schemas
    /\ nextId = 1
    /\ builder = NoBuilder
    /\ built = NotBuilt

\* The builders a caller of the package may construct.
Builders ==
    { [class |-> "FilletBuilder", object |-> FilletBuilder("Fillet", radius, fillet_type),
       edge_ids_of_caller |-> FALSE] :
        radius \in FilletRadii, fillet_type \in FilletType }
    \cup
    { [class |-> "GearBuilder",
       object |-> GearBuilder(num_teeth, module, pressure_angle, thickness)] :
        num_teeth \in Teeth, module \in Modules,
        pressure_angle \in PressureAngles, thickness \in Thicknesses }
    \cup
    { [class |-> "SteppedExtrudeBuilder",
       object |-> SteppedExtrudeBuilder("Step", radii, <<>>)] :
        radii \in {<<>>, <<2>>} }
    \cup
    { [class |-> "EdgeQuery", object |-> [radius |-> radius, tolerance |-> tolerance]] :
        radius \in {<<>>, <<250>>}, tolerance \in {0, 1} }

\* No tool is invoked; a caller has constructed a builder.
BuilderInit ==
    /\ name = [c \in Calls |-> ""]
    /\ arguments = [c \in Calls |-> NoRequest]
    /\ pc = [c \in Calls |-> "idle"]
    /\ features = [c \in Calls |-> <<>>]
    /\ i = [c \in Calls |-> 1]
    /\ feature_ids = [c \in Calls |-> <<>>]
    /\ sketch_ids = [c \in Calls |-> <<>>]
    /\ result = [c \in Calls |-> NoResult]
    /\ gateway = <<>>
    /\ schema = "featureId"
    /\ nextId = 1
    /\ builder \in Builders
    /\ built = NotBuilt

Init == InitWith({1}) \/ BuilderInit

BuilderNext ==
    \/ FilletSetRadius
    \/ FilletAddEdge
    \/ FilletSetEdges
    \/ FilletCallerAppends
    \/ FilletBuild
    \/ GearSetCenter
    \/ GearSetTeeth
    \/ GearBuild
    \/ GearBuildAsCustomFeature
    \/ SteppedAddStep
    \/ SteppedBuildAllFeatures
    \/ EdgeQueryGetEdges
    \/ EdgeQueryReturn
    \/ EdgeQueryFailure

Next ==
    \/ BuilderNext
    \/ \E c \in Calls :
        \/ Build(c)
        \/ Submit(c)
        \/ Return(c)
        \/ Rejected(c)
        \/ TransportFailure(c)
        \/ Finish(c)
        \/ FilletSubmit(c)
        \/ FilletReturn(c)
        \/ FilletRejected(c)
        \/ FilletTransportFailure(c)
        \/ SketchResolvePlane(c)
        \/ SketchSubmit(c)
        \/ SketchReturn(c)
        \/ SketchFailure(c)
        \/ ExtrudeSubmit(c)
        \/ ExtrudeReturn(c)
        \/ ExtrudeRejected(c)
        \/ ExtrudeTransportFailure(c)
        \/ ThickenSubmit(c)
        \/ ThickenReturn(c)
        \/ ThickenRejected(c)
        \/ ThickenTransportFailure(c)
        \/ ShapeResolvePlane(c)
        \/ ShapeSubmit(c)
        \/ ShapeReturn(c)
        \/ ShapeFailure(c)
        \/ HoleSubmit(c)
        \/ HoleReturn(c)
        \/ HoleRejected(c)
        \/ HoleTransportFailure(c)
        \/ QuerySubmit(c)
        \/ QueryReturn(c)
        \/ QueryRejected(c)
        \/ QueryTransportFailure(c)
        \/ UnknownTool(c)
        \/ Cancel(c)

\* One tool invocation, or one builder in the hands of a caller.
Spec == Init /\ [][Next]_vars

\* The requests of two invocations that run together: two steps each, the
\* radii in either order.
ConcurrentRequests ==
    { [radii |-> <<2, 1>>, depths |-> <<1, 2>>],
      [radii |-> <<1, 2>>, depths |-> <<2, 1>>] }

\* Every invocation of Calls has been called with create_stepped_extrude and
\* none has run yet.
ConcurrentInit ==
    /\ name = [c \in Calls |-> "create_stepped_extrude"]
    /\ arguments \in [Calls -> ConcurrentRequests]
    /\ pc = [c \in Calls |-> "start"]
    /\ features = [c \in Calls |-> <<>>]
    /\ i = [c \in Calls |-> 1]
    /\ feature_ids = [c \in Calls |-> <<>>]
    /\ sketch_ids = [c \in Calls |-> <<>>]
    /\ result = [c \in Calls |-> NoResult]
    /\ gateway = <<>>
    /\ schema \in Schemas
    /\ nextId = 1
    /\ builder = NoBuilder
    /\ built = NotBuilt

\* The event loop runs one invocation up to its next await, or ends the
\* await of one.
ConcurrentNext ==
    \E c \in Calls :
        \/ Build(c)
        \/ Submit(c)
        \/ Return(c)
        \/ Rejected(c)
        \/ TransportFailure(c)
        \/ Finish(c)
        \/ Cancel(c)

\* Two create_stepped_extrude invocations on one server.
ConcurrentSpec == ConcurrentInit /\ [][ConcurrentNext]_vars

(***************************************************************************)
(* Properties of the stepped-extrude chain.                                *)
(***************************************************************************)
ChainCalls == {c \in Calls : name[c] = "create_stepped_extrude"}

IsSketch(request) ==
    request.op = "add_feature" /\ request.feature.feature.featureType = "sketch"
\* The request is an extrude of a stepped-extrude chain.
IsExtrude(request) ==
    /\ request.op = "add_feature"
    /\ request.caller \in ChainCalls
    /\ request.feature.feature.featureType = "extrude"

\* The sketches invocation c has handed to the Gateway, in order.
SubmittedSketches(c) == SelectSeq(RequestsOf(c), IsSketch)

\* The radius of the circle of a submitted sketch.
SketchRadius(request) == request.feature.feature.entities[1].radius

\* The radii of the sketches invocation c has submitted, in order.
SubmittedRadii(c) ==
    LET sketches == SubmittedSketches(c)
    IN  [k \in 1..Len(sketches) |-> SketchRadius(sketches[k])]

\* The sketch-region queries of a submitted extrude.
QueriesOf(request) ==
    LET params == request.feature.feature.parameters
        k == CHOOSE k \in 1..Len(params) : params[k].parameterId = "entities"
    IN  params[k].queries

\* The request failed: add_feature raised.
Failed(request) == request.response.status \in {"HTTPStatusError", "Exception"}

ValidChain(c) ==
    /\ Len(arguments[c].radii) = Len(arguments[c].depths)
    /\ Len(arguments[c].radii) >= 2

PairwiseDistinct(seq) ==
    \A j, k \in 1..Len(seq) : j # k => seq[j] # seq[k]

\* C1: for a request with len(radii) = len(depths) >= 2 and pairwise-distinct
\* radii, the radii of the sketches submitted so far are strictly descending
\* in submission order, and once every submission has been accepted they are
\* all the radii of the request.
C1_SketchesInDescendingRadius ==
    \A c \in ChainCalls :
        ValidChain(c) /\ PairwiseDistinct(arguments[c].radii) =>
            LET submitted == SubmittedRadii(c)
                requests == RequestsOf(c)
            IN  /\ \A j \in 1..(Len(submitted) - 1) : submitted[j] > submitted[j + 1]
                /\ ( /\ pc[c] = "done"
                     /\ \A k \in 1..Len(requests) : ~Failed(requests[k]) )
                   => /\ Len(submitted) = Len(arguments[c].radii)
                      /\ Range(submitted) = Range(arguments[c].radii)

\* The request of the specification's example, radii [0.25, 0.5, 0.375], has
\* been submitted as 0.5, 0.375, 0.25.
C1_Witness ==
    \E c \in ChainCalls :
        /\ arguments[c].radii = <<1, 3, 2>>
        /\ SubmittedRadii(c) = <<3, 2, 1>>
        /\ pc[c] = "done"

\* C2: a request whose radii and depths differ in length, or which has fewer
\* than 2 steps, returns the text of the ValueError of build_all_features and
\* never hands anything to the Gateway.
C2_InvalidChainSpecSubmitsNothing ==
    \A c \in ChainCalls :
        ~ValidChain(c) =>
            /\ RequestsOf(c) = <<>>
            /\ pc[c] \in {"start", "done"}
            /\ pc[c] = "done" =>
                  /\ result[c].kind = "Error creating counterbore hole"
                  /\ result[c].message =
                        IF Len(arguments[c].radii) # Len(arguments[c].depths)
                        THEN "Number of radii must match number of depths"
                        ELSE "At least 2 steps required for counterbore hole"

\* A one-step request has been answered.
C2_Witness ==
    \E c \in ChainCalls :
        /\ Len(arguments[c].radii) = 1
        /\ Len(arguments[c].depths) = 1
        /\ pc[c] = "done"
        /\ RequestsOf(c) = <<>>

\* Every placeholder token a builder may write.
PlaceholderTokens == {Placeholder(k) : k \in 0..(2 * MaxSteps + 1)}

\* C3: no extrude handed to the Gateway holds a placeholder token, of its own
\* step or of another, in the queryString or in the featureId of a
\* sketch-region query.
C3_NoUnresolvedPlaceholder ==
    \A p \in 1..Len(gateway) :
        IsExtrude(gateway[p]) =>
            \A k \in 1..Len(QueriesOf(gateway[p])) :
                /\ Range(QueriesOf(gateway[p])[k].queryString) \cap PlaceholderTokens = {}
                /\ Range(QueriesOf(gateway[p])[k].featureId) \cap PlaceholderTokens = {}

\* The extrude of the second step has been submitted with the identifier of
\* a feature in the place of its placeholder.
C3_Witness ==
    \E p \in 1..Len(gateway) :
        /\ IsExtrude(gateway[p])
        /\ gateway[p].index = 4
        /\ QueriesOf(gateway[p])[1].queryString[2] = ServiceId(3)

C5_ChainStopsAtFirstFailure ==
    /\ \A p \in 1..Len(gateway) :
          (gateway[p].caller \in Calls /\ Failed(gateway[p])) =>
              /\ pc[gateway[p].caller] = "done"
              /\ \A r \in (p + 1)..Len(gateway) : gateway[r].caller # gateway[p].caller
    /\ \A p \in 1..Len(gateway) :
          gateway[p].caller \in ChainCalls => gateway[p].op = "add_feature"

\* The second request of a three-step chain has failed: four built features
\* were never submitted, and the sketch created first is still there.
C5_Witness ==
    \E c \in ChainCalls :
        /\ Len(features[c]) = 6
        /\ Len(gateway) = 2
        /\ gateway[1].caller = c /\ gateway[1].response.status = "ok"
        /\ gateway[2].caller = c /\ gateway[2].response.status = "HTTPStatusError"
        /\ pc[c] = "done"

\* C6: when the k-th request of a chain fails (k >= 2), what call_tool returns
\* lists the identifiers of the k-1 features created before the failure.
C6_FailureReportsCreatedIds ==
    \A c \in ChainCalls :
        LET requests == RequestsOf(c)
        IN  ( /\ pc[c] = "done"
              /\ Len(requests) >= 2
              /\ Failed(requests[Len(requests)]) )
            => /\ "ids" \in DOMAIN result[c]
               /\ Len(result[c].ids) = Len(requests) - 1
               /\ \A k \in 1..Len(result[c].ids) :
                     "featureId" \in DOMAIN requests[k].response.body
                     => result[c].ids[k] = requests[k].response.body.featureId

\* C7: when a chain is cancelled while a request is pending, the identifiers
\* the Gateway had already returned are given to the caller.
C7_CancellationExposesPartialIds ==
    \A c \in ChainCalls :
        LET requests == RequestsOf(c)
        IN  ( /\ pc[c] = "cancelled"
              /\ Len(requests) >= 2 )
            => /\ "ids" \in DOMAIN result[c]
               /\ Len(result[c].ids) = Len(requests) - 1

\* C8: no built feature is handed to the Gateway twice by one invocation,
\* whatever the answers; a chain of n steps makes at most 2n requests and
\* create_fillet at most one.
C8_NeverRetries ==
    \A c \in Calls :
        LET requests == RequestsOf(c)
        IN  /\ \A j, k \in 1..Len(requests) :
                  j # k => requests[j].index # requests[k].index
            /\ name[c] = "create_stepped_extrude"
                  => Len(requests) <= 2 * Len(arguments[c].radii)
            /\ name[c] = "create_fillet" => Len(requests) <= 1

\* A request has failed for want of a connection after another succeeded, and
\* the invocation has returned.
C8_Witness ==
    \E c \in Calls :
        /\ pc[c] = "done"
        /\ Len(gateway) = 3
        /\ \A k \in 1..3 : gateway[k].caller = c
        /\ gateway[3].response.status = "Exception"

SketchBuilt(c, s) == Len(features[c]) >= 2 * s - 1

\* The request for the extrude of step s of invocation c has been answered.
ExtrudeReturned(c, s) ==
    \E k \in 1..Len(gateway) :
        /\ gateway[k].caller = c
        /\ gateway[k].index = 2 * s
        /\ gateway[k].response.status = "ok"

\* C10, as claimed: the sketch descriptor of step s+1 is built only once the
\* request for the extrude of step s has returned.
C10_SketchBuiltAfterPreviousExtrude ==
    \A c \in ChainCalls :
        \A s \in 1..MaxSteps :
            SketchBuilt(c, s + 1) => ExtrudeReturned(c, s)

\* C10, amended: the sketch of step s+1 is handed to the Gateway only once
\* the request for the extrude of step s has returned.
C10_SketchSubmittedAfterPreviousExtrude ==
    \A k \in 1..Len(gateway) :
        (IsSketch(gateway[k]) /\ gateway[k].index > 1)
        => \E j \in 1..(k - 1) :
              /\ gateway[j].caller = gateway[k].caller
              /\ gateway[j].index = gateway[k].index - 1
              /\ IsExtrude(gateway[j])
              /\ gateway[j].response.status = "ok"

\* The sketch of the third step is pending, the extrude of the second done.
C10_Witness ==
    \E c \in ChainCalls :
        /\ pc[c] = "await"
        /\ Len(gateway) = 5
        /\ gateway[5].caller = c /\ IsSketch(gateway[5])
        /\ gateway[4].caller = c /\ gateway[4].response.status = "ok"

\* The parameter of a submitted feature that has the given parameterId.
ParameterOf(request, parameterId) ==
    LET params == request.feature.feature.parameters
        k == CHOOSE k \in 1..Len(params) : params[k].parameterId = parameterId
    IN  params[k]

\* The extrudes invocation c has handed to the Gateway, in order.
SubmittedExtrudes(c) == SelectSeq(RequestsOf(c), IsExtrude)

\* The depth values of the extrudes invocation c has submitted, in order.
SubmittedDepths(c) ==
    LET extrudes == SubmittedExtrudes(c)
    IN  [k \in 1..Len(extrudes) |-> ParameterOf(extrudes[k], "depth").value]

\* C11: in a chain that passed validation the depths of the submitted
\* extrudes are non-decreasing in submission order, so that the first step
\* submitted (the one of largest radius) is also the shallowest.
C11_DepthsNonDecreasing ==
    \A c \in ChainCalls :
        ValidChain(c) =>
            LET submitted == SubmittedDepths(c)
            IN  \A j \in 1..(Len(submitted) - 1) : submitted[j] <= submitted[j + 1]

\* C12: in a chain that passed validation every submitted extrude follows a
\* sketch, is a REMOVE operation, has for depth value a depth that stands in
\* the request at an index where the radius of that sketch stands (the one
\* such index when the radii are pairwise distinct), and has for depth
\* expression that value followed by " in".
C12_ExtrudePairedWithItsSketch ==
    \A c \in ChainCalls :
        ValidChain(c) =>
            LET requests == RequestsOf(c)
                radii == arguments[c].radii
                depths == arguments[c].depths
            IN  \A p \in 1..Len(requests) :
                    IsExtrude(requests[p]) =>
                        /\ p > 1
                        /\ IsSketch(requests[p - 1])
                        /\ ParameterOf(requests[p], "operationType").value = "REMOVE"
                        /\ \E k \in 1..Len(radii) :
                              /\ radii[k] = SketchRadius(requests[p - 1])
                              /\ depths[k] = ParameterOf(requests[p], "depth").value
                        /\ ParameterOf(requests[p], "depth").expression =
                              ToString(ParameterOf(requests[p], "depth").value) \o " in"

\* The request lists the smaller radius first and gives it the greater depth;
\* the sketch of radius 3 has been followed by the extrude of depth 1.
C12_Witness ==
    \E c \in ChainCalls :
        /\ arguments[c].radii = <<1, 3>>
        /\ arguments[c].depths = <<2, 1>>
        /\ Len(RequestsOf(c)) >= 2
        /\ SketchRadius(RequestsOf(c)[1]) = 3
        /\ ParameterOf(RequestsOf(c)[2], "depth").value = 1
        /\ ParameterOf(RequestsOf(c)[2], "depth").expression = "1 in"

\* The place a stable sort by descending radius gives to step k of the
\* request: after the steps of greater radius, and after the steps of equal
\* radius that stand before it in the request.
Rank(radii, k) ==
    1 + Cardinality({j \in 1..Len(radii) :
                        \/ radii[j] > radii[k]
                        \/ radii[j] = radii[k] /\ j < k})

\* C13: in a chain that passed validation, step k of the request is submitted
\* at the place of a stable sort: steps of equal radius are submitted in the
\* order in which they stand in the request.
C13_EqualRadiiKeepInputOrder ==
    \A c \in ChainCalls :
        ValidChain(c) =>
            LET radii == arguments[c].radii
                depths == arguments[c].depths
                submittedRadii == SubmittedRadii(c)
                submittedDepths == SubmittedDepths(c)
            IN  \A k \in 1..Len(radii) :
                    LET s == Rank(radii, k)
                    IN  /\ s <= Len(submittedRadii) => submittedRadii[s] = radii[k]
                        /\ s <= Len(submittedDepths) => submittedDepths[s] = depths[k]

\* Two steps of radius 2 stand in the request with depths 2 and then 1, and
\* were submitted in that order before the step of radius 1.
C13_Witness ==
    \E c \in ChainCalls :
        /\ arguments[c].radii = <<1, 2, 2>>
        /\ arguments[c].depths = <<1, 2, 1>>
        /\ pc[c] = "done"
        /\ SubmittedRadii(c) = <<2, 2, 1>>
        /\ SubmittedDepths(c) = <<2, 1, 1>>

\* C14: every sketch handed to the Gateway carries the plane identifier that
\* get_plane_id returned to the same invocation before the sketch was
\* submitted.
C14_SketchCarriesResolvedPlaneId ==
    \A p \in 1..Len(gateway) :
        IsSketch(gateway[p]) =>
            \E q \in 1..(p - 1) :
                /\ gateway[q].caller = gateway[p].caller
                /\ gateway[q].op = "get_plane_id"
                /\ gateway[q].response.status = "ok"
                /\ gateway[p].feature.feature.planeId = gateway[q].response.body

\* The request of invocation c fails a check that needs nothing but the
\* request: a step list, an enum token, a required field, a shape.
LocallyInvalid(c) ==
    CASE name[c] = "create_stepped_extrude" -> ~ValidChain(c)
      [] name[c] = "create_fillet" ->
             \/ FilletRaisesKeyError(arguments[c])
             \/ arguments[c].edgeIds = <<>>
      [] name[c] = "create_sketch" ->
             \/ Upper(Get(arguments[c], "plane", "Front")) \notin SketchPlane
             \/ AddEntities([error |-> "", entities |-> <<>>],
                            Get(arguments[c], "entities", <<>>), 1).error # ""
      [] OTHER -> FALSE

\* C17: an invocation whose request is locally invalid never calls the
\* Gateway, neither to resolve a plane nor to add a feature.
C17_ValidationBeforeFirstRemoteCall ==
    \A c \in Calls : LocallyInvalid(c) => RequestsOf(c) = <<>>

(***************************************************************************)
(* Properties of the fillet builder and of create_fillet.                  *)
(***************************************************************************)
FilletCalls == {c \in Calls : name[c] = "create_fillet"}

\* A FilletBuilder has been asked to build.
FilletWasBuilt == builder.class = "FilletBuilder" /\ built.status # "none"

\* The parameter of a feature that has the given parameterId.
FeatureParameter(feature, parameterId) ==
    ParameterOf([feature |-> feature], parameterId)

\* The deterministicIds of the one query of a fillet feature.
FilletEdgeIds(feature) ==
    FeatureParameter(feature, "entities").queries[1].deterministicIds

\* C15: build() of a FilletBuilder that holds no edge identifier raises and
\* returns no feature, so that every feature build() returns lists at least
\* one identifier in deterministicIds; a create_fillet request with an empty
\* edgeIds hands nothing to the Gateway, and every fillet the Gateway is
\* handed lists at least one identifier.
C15_EmptyEdgesNeverBuilt ==
    /\ FilletWasBuilt =>
          /\ built.of.edge_ids = <<>> => built.status = "ValueError"
          /\ built.status = "feature" => FilletEdgeIds(built.feature) # <<>>
    /\ \A c \in FilletCalls :
          ("edgeIds" \in DOMAIN arguments[c] /\ arguments[c].edgeIds = <<>>)
          => RequestsOf(c) = <<>>
    /\ \A p \in 1..Len(gateway) :
          gateway[p].caller \in FilletCalls
          => FilletEdgeIds(gateway[p].feature) # <<>>

\* A builder that holds no edge identifier has been asked to build, and
\* raised.
C15_Witness ==
    /\ FilletWasBuilt
    /\ built.status = "ValueError"
    /\ built.message = "At least one edge ID must be set before building fillet"
    /\ built.of.edge_ids = <<>>

\* The expression FilletBuilder.build writes for a radius and a variable
\* name, as the claim states it.
ExpectedExpression(radius, variable_name) ==
    IF variable_name # <<>> /\ variable_name[1] # ""
    THEN "#" \o variable_name[1]
    ELSE ToString(radius) \o " in"

\* C16: in a feature returned by FilletBuilder.build the radius parameter has
\* for value the builder's radius and for expression "#" and the variable
\* name when a non-empty name was set, the radius and " in" otherwise; the
\* same holds of the fillet create_fillet submits, for the radius and the
\* variableRadius of its request.
C16_RadiusExpression ==
    /\ (FilletWasBuilt /\ built.status = "feature") =>
          LET radius == FeatureParameter(built.feature, "radius")
          IN  /\ radius.value = built.of.radius
              /\ radius.expression =
                    ExpectedExpression(built.of.radius, built.of.radius_variable)
    /\ \A p \in 1..Len(gateway) :
          gateway[p].caller \in FilletCalls =>
              LET radius == ParameterOf(gateway[p], "radius")
                  args == arguments[gateway[p].caller]
              IN  /\ radius.value = args.radius
                  /\ radius.expression =
                        ExpectedExpression(args.radius,
                                           Get(args, "variableRadius", <<>>))

\* A builder whose radius was set to 2 with the variable name fillet_r has
\* built a feature whose radius is 2 and whose expression is #fillet_r.
C16_Witness ==
    /\ FilletWasBuilt
    /\ built.status = "feature"
    /\ built.of.radius = 2
    /\ FeatureParameter(built.feature, "radius").value = 2
    /\ FeatureParameter(built.feature, "radius").expression = "#fillet_r"

(***************************************************************************)
(* Properties of the gear builder.                                         *)
(***************************************************************************)
\* The feature embeds a script and has the four gear parameters as typed
\* fields, with the values of the builder object `gear`.
CarriesGearParameters(feature, gear) ==
    /\ "featureScript" \in DOMAIN feature.feature
    /\ feature.feature.featureScript # ""
    /\ LET params == feature.feature.parameters
           Has(parameterId, value) ==
               \E k \in 1..Len(params) :
                   /\ params[k].parameterId = parameterId
                   /\ params[k].btType = "BTMParameterQuantity-147"
                   /\ params[k].value = value
       IN  /\ Has("numTeeth", gear.num_teeth)
           /\ Has("module", gear.module)
           /\ Has("pressureAngle", gear.pressure_angle)
           /\ Has("thickness", gear.thickness)

\* C19: a feature returned by GearBuilder.build() embeds a script and carries
\* the builder's num_teeth, module, pressure_angle and thickness as typed
\* parameters.
C19_GearBuildCarriesParameters ==
    ( /\ builder.class = "GearBuilder"
      /\ built.status = "feature"
      /\ built.method = "build" )
    => CarriesGearParameters(built.feature, built.of)

(***************************************************************************)
(* Properties of the enum tokens of a request.                             *)
(***************************************************************************)
\* The request of invocation c names a fillet type or an operation type that
\* is not a member of the enum of its tool.
InvalidEnumToken(c) ==
    CASE name[c] = "create_fillet" ->
             Get(arguments[c], "filletType", "EDGE") \notin FilletType
      [] name[c] = "create_extrude" ->
             Get(arguments[c], "operationType", "NEW") \notin ExtrudeType
      [] name[c] = "create_thicken" ->
             Get(arguments[c], "operationType", "NEW") \notin ThickenType
      [] OTHER -> FALSE

\* The members of the enum that the text of a result cites.
AllowedSet(text) == Range(text.allowed)

\* C18: a create_fillet, create_extrude or create_thicken invocation whose
\* filletType or operationType is outside the enum hands nothing to the
\* Gateway, and returns the error text that lists the members of the enum.
C18_InvalidEnumTokenRejected ==
    \A c \in Calls :
        InvalidEnumToken(c) =>
            /\ RequestsOf(c) = <<>>
            /\ pc[c] \in {"start", "done"}
            /\ pc[c] = "done" =>
                  /\ "allowed" \in DOMAIN result[c]
                  /\ AllowedSet(result[c]) =
                        CASE name[c] = "create_fillet"  -> FilletType
                          [] name[c] = "create_extrude" -> ExtrudeType
                          [] name[c] = "create_thicken" -> ThickenType

\* A create_extrude request of operation type CUT, with its sketch and its
\* depth, has been answered with the text that lists the four operation
\* types.
C18_Witness ==
    \E c \in Calls :
        /\ name[c] = "create_extrude"
        /\ "operationType" \in DOMAIN arguments[c]
        /\ arguments[c].operationType = "CUT"
        /\ "sketchFeatureId" \in DOMAIN arguments[c]
        /\ "depth" \in DOMAIN arguments[c]
        /\ pc[c] = "done"
        /\ result[c] = ExtrudeKeyError
        /\ gateway = <<>>

(***************************************************************************)
(* Properties of invocations that run together.                            *)
(***************************************************************************)
\* The identifiers the Gateway has returned to invocation c.
ReturnedTo(c) ==
    {ReadFeatureId(gateway[k].response.body) :
        k \in {j \in 1..Len(gateway) :
                  /\ gateway[j].caller = c
                  /\ gateway[j].op = "add_feature"
                  /\ gateway[j].response.status = "ok"}}

\* The identifiers returned to invocation c for its sketches.
SketchesReturnedTo(c) ==
    {ReadFeatureId(gateway[k].response.body) :
        k \in {j \in 1..Len(gateway) :
                  /\ gateway[j].caller = c
                  /\ IsSketch(gateway[j])
                  /\ gateway[j].response.status = "ok"}}

InFlight(c) ==
    LET requests == RequestsOf(c)
    IN  {k \in 1..Len(requests) : requests[k].response = Pending}

\* C21: at every moment at most one request of a chain has no answer yet,
\* the chain's requests are its features 1, 2, 3, ... each handed over once,
\* and every request but the newest has returned successfully; so the sketch
\* of step s+1 (feature 2s+1) follows the successful return of the extrude of
\* step s (feature 2s).
C21_ChainSubmissionIsSequential ==
    \A c \in ChainCalls :
        LET requests == RequestsOf(c)
        IN  /\ Cardinality(InFlight(c)) <= 1
            /\ \A k \in 1..Len(requests) :
                  /\ requests[k].index = k
                  /\ k < Len(requests) => requests[k].response.status = "ok"

\* The sketch of the second step is in flight, alone, after the first step's
\* sketch and extrude have returned.
C21_Witness ==
    \E c \in ChainCalls :
        LET requests == RequestsOf(c)
        IN  /\ Len(requests) = 3
            /\ InFlight(c) = {3}
            /\ IsSketch(requests[3])
            /\ IsExtrude(requests[2]) /\ requests[2].response.status = "ok"

\* The sketch references of a submitted extrude: the tokens of the
\* queryString and featureId of its sketch-region queries.
SketchReferences(request) ==
    UNION {Range(q.queryString) \cup Range(q.featureId) :
           q \in Range(QueriesOf(request))}

\* C22: no extrude of a chain is handed to the Gateway with the fallback
\* string "unknown" as its sketch reference.
C22_ExtrudeNeverReferencesUnknown ==
    \A k \in 1..Len(gateway) :
        IsExtrude(gateway[k]) => "unknown" \notin SketchReferences(gateway[k])

\* What build_all_features returned to invocation c, before the loop touched it.
OriginalFeatures(c) ==
    build_all_features(NamePrefix, Plane, arguments[c].radii, arguments[c].depths)

\* The record without the fields `keys`.
AllBut(record, keys) == [key \in DOMAIN record \ keys |-> record[key]]

\* The two queries have the same fields and differ at most in queryString
\* and featureId.
SameQueryButReference(sent, original) ==
    /\ DOMAIN sent = DOMAIN original
    /\ AllBut(sent, {"queryString", "featureId"})
          = AllBut(original, {"queryString", "featureId"})

\* The two parameters are equal, or are both the "entities" parameter and
\* differ at most in the sketch references of their queries.
SameParamButReference(sent, original) ==
    IF original.parameterId = "entities"
    THEN /\ DOMAIN sent = DOMAIN original
         /\ AllBut(sent, {"queries"}) = AllBut(original, {"queries"})
         /\ Len(sent.queries) = Len(original.queries)
         /\ \A k \in 1..Len(original.queries) :
               SameQueryButReference(sent.queries[k], original.queries[k])
    ELSE sent = original

\* The two features differ at most in the sketch references of the queries
\* of the "entities" parameter.
SameFeatureButReference(sent, original) ==
    /\ DOMAIN sent = DOMAIN original
    /\ AllBut(sent, {"feature"}) = AllBut(original, {"feature"})
    /\ DOMAIN sent.feature = DOMAIN original.feature
    /\ AllBut(sent.feature, {"parameters"}) = AllBut(original.feature, {"parameters"})
    /\ Len(sent.feature.parameters) = Len(original.feature.parameters)
    /\ \A k \in 1..Len(original.feature.parameters) :
          SameParamButReference(sent.feature.parameters[k],
                                original.feature.parameters[k])

\* C23: every sketch of a chain reaches the Gateway exactly as
\* build_all_features produced it, and every extrude reaches it as produced
\* but for the queryString and featureId of the queries of its "entities"
\* parameter: operation type, depth value and expression, name and all other
\* fields are untouched.
C23_SubstitutionChangesOnlySketchReferences ==
    \A k \in 1..Len(gateway) :
        gateway[k].caller \in ChainCalls
        => LET original == OriginalFeatures(gateway[k].caller)[gateway[k].index]
           IN  IF IsSketch(gateway[k])
               THEN gateway[k].feature = original
               ELSE SameFeatureButReference(gateway[k].feature, original)

\* An extrude has been submitted with its placeholder replaced: it is no
\* longer the feature build_all_features produced.
C23_Witness ==
    \E k \in 1..Len(gateway) :
        /\ IsExtrude(gateway[k])
        /\ gateway[k].feature # OriginalFeatures(gateway[k].caller)[gateway[k].index]
        /\ QueriesOf(gateway[k])[1].featureId = << ServiceId(1) >>
        /\ ParameterOf(gateway[k], "operationType").value = "REMOVE"

\* A step of build_all_features: it is the one method of a
\* SteppedExtrudeBuilder that returns or raises.
BuildAllFeaturesStep ==
    builder.class = "SteppedExtrudeBuilder" /\ built' # built

\* C24: a call of build_all_features leaves the builder's radii and depths
\* (the caller's lists) as they were, in content and order; a second call on
\* a builder that has not changed since the first returns the same list of
\* features; and the tool's arguments are never changed, so the step count it
\* reports is the number of steps of the request.
C24_BuildLeavesListsUnchanged ==
    [][ /\ BuildAllFeaturesStep
           => /\ builder'.object.radii = builder.object.radii
              /\ builder'.object.depths = builder.object.depths
        /\ ( /\ builder.class = "SteppedExtrudeBuilder"
             /\ built.status = "features"
             /\ built.of = builder.object
             /\ builder' = builder )
           => built' = built
        /\ \A c \in ChainCalls :
              /\ arguments'[c] = arguments[c]
              /\ result'[c].kind = "Created counterbore hole"
                 => result'[c].num_steps = Len(arguments[c].radii)
      ]_vars

\* build_all_features has returned the features of a builder whose radii
\* are not in descending order, and the builder still holds them so.
C24_Witness ==
    /\ builder.class = "SteppedExtrudeBuilder"
    /\ built.status = "features"
    /\ builder.object.radii = <<1, 2, 3>>
    /\ built.of = builder.object
    /\ built.features[1].feature.entities[1].radius = 3

\* C25: a feature FilletBuilder.build() returned reads, after any later
\* add_edge, set_edges or set_radius on the builder and any change of the
\* list passed to set_edges, as it read when build() returned it: the same
\* edge identifiers, the same radius.
C25_ReturnedFeatureIsSnapshot ==
    (FilletWasBuilt /\ built.status = "feature")
    => /\ FilletEdgeIds(built.now) = FilletEdgeIds(built.feature)
       /\ FeatureParameter(built.now, "radius") = FeatureParameter(built.feature, "radius")

\* C26: create_fillet, create_extrude and create_thicken return their
\* "Invalid fillet type" / "Invalid operation type" text only for a request
\* whose enum token is outside the enum; a request with a valid token and a
\* missing argument is never answered with it.
C26_InvalidTypeOnlyForInvalidToken ==
    \A c \in Calls :
        ( /\ name[c] \in {"create_fillet", "create_extrude", "create_thicken"}
          /\ result[c] \in {FilletKeyError, ExtrudeKeyError, ThickenKeyError} )
        => InvalidEnumToken(c)

\* The sketch invocation c of create_sketch handed to add_feature.
SketchSentBy(c) ==
    LET sent == SelectSeq(RequestsOf(c), LAMBDA q : q.op = "add_feature")
    IN  sent[1].feature.feature

\* C27: a create_sketch that reports success submitted a sketch whose
\* entities are those of the request, in the request's order, and the count
\* it reports is the number of entities of the submitted sketch, also when
\* the request has an entity that is not a line, a circle or a rectangle.
C27_SketchEntitiesInOrderAndCounted ==
    \A c \in Calls :
        (name[c] = "create_sketch" /\ result[c].kind = "Created sketch")
        => LET entities == Get(arguments[c], "entities", <<>>)
               known == SelectSeq(entities,
                                  LAMBDA e : Get(e, "type", "None")
                                             \in {"line", "circle", "rectangle"})
           IN  /\ SketchSentBy(c).entities
                     = [k \in 1..Len(known) |-> EntityRecord(known[k])]
               /\ result[c].entity_count = Len(SketchSentBy(c).entities)

\* What call_tool returned is one text: it returned, and did not raise.
IsText(outcome) == outcome.kind \notin {"none", "raise"}

\* C28: an invocation of a tool list_tools declares never raises: once it is
\* over, after a local validation error, a missing argument, a rejection by
\* the Gateway, a transport error or a success, it has returned one text;
\* an invocation whose remote call failed is over.  Only an invocation of a
\* name list_tools does not declare raises, and it raises ValueError
\* "Unknown tool".  (A cancelled invocation is not over: it returns nothing.)
C28_DeclaredToolsReturnText ==
    \A c \in Calls :
        /\ name[c] \in ToolNames
           => /\ pc[c] # "raised"
              /\ pc[c] = "done" => IsText(result[c])
              /\ (\E k \in 1..Len(gateway) : gateway[k].caller = c /\ Failed(gateway[k]))
                 => pc[c] = "done"
        /\ pc[c] = "raised"
           => /\ name[c] \notin ToolNames
              /\ result[c] = Raises("ValueError", "Unknown tool: " \o name[c])
        /\ IsText(result[c]) => pc[c] = "done"

\* The remote call of get_document_summary failed for want of a connection,
\* and the invocation returned the text of the error.
C28_Witness ==
    \E c \in Calls :
        /\ name[c] = "get_document_summary"
        /\ pc[c] = "done"
        /\ Len(gateway) = 1
        /\ gateway[1].response = TransportError
        /\ result[c] = QueryError(name[c], "transport failure")

\* The edges of result.value of the answer the query got, or <<>> when the
\* answer has no result.value.
AnsweredEdges ==
    LET all_edges == gateway[Len(gateway)].response.body
    IN  IF /\ "result" \in DOMAIN all_edges
           /\ all_edges.result.object
           /\ "value" \in DOMAIN all_edges.result.fields
        THEN all_edges.result.fields.value
        ELSE <<>>

\* The edge is one the claim says is returned: it has a radius, a non-empty
\* deterministicId and, under a radius filter, a radius within the tolerance.
Qualifies(edge, radius, tolerance) ==
    /\ {"radius", "deterministicId"} \subseteq DOMAIN edge
    /\ edge.deterministicId # ""
    /\ radius # <<>> =>
          /\ edge.radius - radius[1] <= tolerance
          /\ radius[1] - edge.radius <= tolerance

\* How many of the first k edges qualify.
QualifyingUpTo(edges, k, radius, tolerance) ==
    Cardinality({j \in 1..k : Qualifies(edges[j], radius, tolerance)})

\* C29: the list find_circular_edges returned has one entry for each
\* qualifying edge of the answer and no other: the n-th qualifying edge's
\* deterministicId is its n-th entry (response order); it is empty when the
\* answer has no result.value; and the call made exactly one remote query.
C29_CircularEdgesInResponseOrder ==
    (builder.class = "EdgeQuery" /\ built.status = "list")
    => LET edges == AnsweredEdges
           radius == built.of.radius
           tolerance == built.of.tolerance
       IN  /\ Len(built.edge_ids) = QualifyingUpTo(edges, Len(edges), radius, tolerance)
           /\ \A k \in 1..Len(edges) :
                 Qualifies(edges[k], radius, tolerance)
                 => built.edge_ids[QualifyingUpTo(edges, k, radius, tolerance)]
                       = edges[k].deterministicId
           /\ Len(gateway) = 1
           /\ gateway[1].op = "featurescript"

\* Under the filter 250 with tolerance 1, of an edge of radius 252 and one of
\* radius 251, in this order, only the second was returned.
C29_Witness ==
    /\ builder.class = "EdgeQuery"
    /\ built.status = "list"
    /\ built.of = [radius |-> <<250>>, tolerance |-> 1]
    /\ AnsweredEdges = << [radius |-> 252, deterministicId |-> "JHD"],
                          [radius |-> 251, deterministicId |-> "JHK"] >>
    /\ built.edge_ids = <<"JHK">>

====
